---- MODULE Spec2Model ----
(***************************************************************************)
(* A model of the frequency foundry: the Foundry gate that collects the    *)
(* soundwaves of the listeners and hands them to the triangulation, the    *)
(* two sinks (wither_logs table, Discord embed), and the triangulation     *)
(* functions of cracking/triangulation.ts.                                 *)
(*                                                                         *)
(* Numbers.  The program computes with IEEE doubles.  Here a number is a   *)
(* decimal fixed-point value: the integer n stands for n / SCALE, and      *)
(* every product, quotient and square root is rounded to the nearest       *)
(* multiple of 1 / SCALE.  The resolution is the square of the             *)
(* finite-difference step of linearWorstCaseError, 1e-6 block.  Sums and   *)
(* differences are exact, as they are for doubles of this size.  Integers  *)
(* have 32 bits, so products and quotients are formed limb by limb and     *)
(* digit by digit; a number stays below 2147 in absolute value.            *)
(***************************************************************************)
EXTENDS Integers, Sequences, FiniteSets, TLC

(***************************************************************************)
(* Fixed-point arithmetic                                                  *)
(***************************************************************************)
\* 1 / delta for the delta = 1e-3 of linearWorstCaseError; also the limb of
\* the products.
DeltaInv == 1000

SCALE == DeltaInv * DeltaInv

Null == [null |-> TRUE]

Abs(a) == IF a < 0 THEN -a ELSE a

Max2(a, b) == IF a > b THEN a ELSE b

\* v with the sign of a * b (v >= 0).
Signed(a, b, v) == IF (a < 0) = (b < 0) THEN v ELSE -v

\* n / d rounded to the nearest integer (d # 0), halves away from zero.
RoundDivAbs(an, ad) == (2 * an + ad) \div (2 * ad)

RoundDiv(n, d) == Signed(n, d, RoundDivAbs(Abs(n), Abs(d)))

\* a * b on numbers: with a = a1 * DeltaInv + a0 and b likewise, a * b is
\* hi * SCALE + mid * DeltaInv + low.
MulParts(hi, mid, low) ==
    hi + (mid \div DeltaInv)
       + RoundDivAbs((mid % DeltaInv) * DeltaInv + low, SCALE)

MulAbs(a, b) ==
    MulParts((a \div DeltaInv) * (b \div DeltaInv),
             (a \div DeltaInv) * (b % DeltaInv) + (a % DeltaInv) * (b \div DeltaInv),
             (a % DeltaInv) * (b % DeltaInv))

Mul(a, b) == Signed(a, b, MulAbs(Abs(a), Abs(b)))

\* a / b on numbers (b # 0): the integer part, then the six decimal digits
\* of SCALE by long division, then the rounding.
NextDigit(prev, b) ==
    [q |-> prev.q * 10 + ((prev.r * 10) \div b), r |-> (prev.r * 10) % b]

RECURSIVE FractionDigits(_, _, _)
FractionDigits(r, b, k) ==
    IF k = 0 THEN [q |-> 0, r |-> r]
    ELSE NextDigit(FractionDigits(r, b, k - 1), b)

RoundedFraction(f, b) == IF 2 * f.r >= b THEN f.q + 1 ELSE f.q

DivAbs(a, b) ==
    (a \div b) * SCALE + RoundedFraction(FractionDigits(a % b, b, 6), b)

Div(a, b) == Signed(a, b, DivAbs(Abs(a), Abs(b)))

\* The number that stands for the integer k, and for 0.5.
Num(k) == k * SCALE

Half == SCALE \div 2

\* Math.floor of a number, as an integer.
Floor(a) == a \div SCALE

\* The largest r with r * r <= n, by bisection on lo..hi (lo * lo <= n < hi * hi).
RECURSIVE SqrtBisect(_, _, _)
SqrtBisect(n, lo, hi) ==
    IF hi - lo <= 1 THEN lo
    ELSE LET mid == (lo + hi) \div 2
         IN  IF mid * mid <= n THEN SqrtBisect(n, mid, hi)
                               ELSE SqrtBisect(n, lo, mid)

ISqrt(n) == SqrtBisect(n, 0, 46341)

\* One step of Newton's iteration for the square root of the number n.
Newton(n, r) == (r + Div(n, r)) \div 2

\* Math.sqrt of a number n >= 0: three steps from the root of the integer n.
Sqrt(n) ==
    IF n = 0 THEN 0
    ELSE Newton(n, Newton(n, Newton(n, Max2(ISqrt(n), 1) * DeltaInv)))

\* Math.hypot(a, b) on numbers; arguments above 30 are scaled down first, as
\* Math.hypot avoids the overflow of the squares.
HypotScaled(ak, bk, k) == k * Sqrt(Mul(ak, ak) + Mul(bk, bk))

HypotBy(a, b, k) == HypotScaled(RoundDiv(a, k), RoundDiv(b, k), k)

Hypot(a, b) == HypotBy(a, b, (Max2(Abs(a), Abs(b)) \div Num(30)) + 1)

(***************************************************************************)
(* cracking/triangulation.ts: points, rays, least squares                  *)
(***************************************************************************)
Point(x, z) == [x |-> x, z |-> z]

\* An Observation; its four fields are numbers.
Observation(px, pz, rx, rz) ==
    [playerX |-> px, playerZ |-> pz, relX |-> rx, relZ |-> rz]

\* The number that 0 / 0 gives.
NaN == [nan |-> TRUE]

\* normalize(v): v / hypot(v.x, v.z).  The length is 0 for the vector (0, 0)
\* alone, and 0 / 0 is NaN.
DivideBy(v, len) ==
    IF len = 0 THEN Point(NaN, NaN) ELSE Point(Div(v.x, len), Div(v.z, len))

normalize(v) == DivideBy(v, Hypot(v.x, v.z))

Ray(origin, d) == [origin |-> origin, d |-> d]

\* A variant of the loop that adds m01 and m10 to b0 and b1 as they are,
\* without the factor ray.origin.z and ray.origin.x.
AddRayWithoutFactor(acc, origin, m00, m01, m10, m11) ==
    [A00 |-> acc.A00 + m00,
     A01 |-> acc.A01 + m01,
     A10 |-> acc.A10 + m10,
     A11 |-> acc.A11 + m11,
     b0  |-> acc.b0 + (Mul(m00, origin.x) + m01),
     b1  |-> acc.b1 + (m10 + Mul(m11, origin.z)),
     sumX |-> acc.sumX + origin.x,
     sumZ |-> acc.sumZ + origin.z]

\* The accumulators A00..A11, b0, b1, sumX, sumZ of
\* computeLeastSquaresIntersection after the first i rays, in list order.
\* One turn of the loop of computeLeastSquaresIntersection: the projection
\* matrix I - d d^T of the ray is m00..m11.
AddRay(acc, origin, m00, m01, m10, m11) ==
    [A00 |-> acc.A00 + m00,
     A01 |-> acc.A01 + m01,
     A10 |-> acc.A10 + m10,
     A11 |-> acc.A11 + m11,
     b0  |-> acc.b0 + (Mul(m00, origin.x) + Mul(m01, origin.z)),
     b1  |-> acc.b1 + (Mul(m10, origin.x) + Mul(m11, origin.z)),
     sumX |-> acc.sumX + origin.x,
     sumZ |-> acc.sumZ + origin.z]

RECURSIVE AccumulateRays(_, _)
AccumulateRays(rays, i) ==
    IF i = 0
    THEN [A00 |-> 0, A01 |-> 0, A10 |-> 0, A11 |-> 0, b0 |-> 0, b1 |-> 0,
          sumX |-> 0, sumZ |-> 0]
    ELSE AddRay(AccumulateRays(rays, i - 1), rays[i].origin,
                SCALE - Mul(rays[i].d.x, rays[i].d.x),
                -Mul(rays[i].d.x, rays[i].d.z),
                -Mul(rays[i].d.x, rays[i].d.z),
                SCALE - Mul(rays[i].d.z, rays[i].d.z))

\* Math.abs(det) < 1e-8.  The threshold 1 / DetEpsInv is below one unit of
\* the fixed point, and the determinant of rounded entries carries their
\* rounding: for parallel rays, whose determinant the doubles give as zero
\* to sixteen digits, the rounded entries give up to some tens of units.  A
\* determinant is below the threshold when it is below DetNoise units, 1e-4.
DetEpsInv == 100000000

DetNoise == 100

IllConditioned(det) ==
    Abs(det) < Max2((SCALE + DetEpsInv - 1) \div DetEpsInv, DetNoise)

\* A variant of the solution without the minus sign of A10 in ez.
SolveNormalEquationsPlus(s, det, n) ==
    IF IllConditioned(det)
    THEN Point(RoundDiv(s.sumX, n), RoundDiv(s.sumZ, n))
    ELSE Point(Div(Mul(s.A11, s.b0) - Mul(s.A01, s.b1), det),
               Div(Mul(s.A10, s.b0) + Mul(s.A00, s.b1), det))

\* The end of computeLeastSquaresIntersection: the mean of the origins when
\* the system is ill-conditioned, the solution of A E = b otherwise.
SolveNormalEquations(s, det, n) ==
    IF IllConditioned(det)
    THEN Point(RoundDiv(s.sumX, n), RoundDiv(s.sumZ, n))
    ELSE Point(Div(Mul(s.A11, s.b0) - Mul(s.A01, s.b1), det),
               Div((-Mul(s.A10, s.b0)) + Mul(s.A00, s.b1), det))

Determinant(s) == Mul(s.A00, s.A11) - Mul(s.A01, s.A10)

SolveAccumulated(s, n) == SolveNormalEquations(s, Determinant(s), n)

computeLeastSquaresIntersection(rays) ==
    SolveAccumulated(AccumulateRays(rays, Len(rays)), Len(rays))

distance(p1, p2) == Hypot(p1.x - p2.x, p1.z - p2.z)

\* A variant that takes the direction from the point of the square alone,
\* without subtracting the player position.
RayThroughAbsolute(obs, ox, oz) ==
    Ray(Point(obs.playerX, obs.playerZ),
        normalize(Point(obs.relX + ox, obs.relZ + oz)))

\* The ray of an observation through the point (relX + ox, relZ + oz) of its
\* square, ox and oz being numbers.
RayThrough(obs, ox, oz) ==
    Ray(Point(obs.playerX, obs.playerZ),
        normalize(Point(obs.relX + ox - obs.playerX,
                        obs.relZ + oz - obs.playerZ)))

computeNominalIntersection(observations) ==
    computeLeastSquaresIntersection(
        [i \in 1..Len(observations) |-> RayThrough(observations[i], Half, Half)])

\* observations with the given field of observation i increased by delta.
PerturbRelX(observations, i, delta) ==
    [observations EXCEPT ![i].relX = @ + delta]

PerturbRelZ(observations, i, delta) ==
    [observations EXCEPT ![i].relZ = @ + delta]

\* const delta = 1e-3.
delta == SCALE \div DeltaInv

\* One turn of the loop of linearWorstCaseError, given the two perturbed
\* intersections of observation i.
AddSensitivity(acc, nominalE, perturbedX, perturbedZ) ==
    [totalErrorX |-> acc.totalErrorX
                     + (Mul(Abs(Div(perturbedX.x - nominalE.x, delta)), Half)
                        + Mul(Abs(Div(perturbedZ.x - nominalE.x, delta)), Half)),
     totalErrorZ |-> acc.totalErrorZ
                     + (Mul(Abs(Div(perturbedX.z - nominalE.z, delta)), Half)
                        + Mul(Abs(Div(perturbedZ.z - nominalE.z, delta)), Half))]

\* totalErrorX and totalErrorZ of linearWorstCaseError after the first i
\* observations.
RECURSIVE LinearTotals(_, _, _)
LinearTotals(observations, nominalE, i) ==
    IF i = 0
    THEN [totalErrorX |-> 0, totalErrorZ |-> 0]
    ELSE AddSensitivity(
            LinearTotals(observations, nominalE, i - 1), nominalE,
            computeNominalIntersection(PerturbRelX(observations, i, delta)),
            computeNominalIntersection(PerturbRelZ(observations, i, delta)))

HypotOfTotals(t) == Hypot(t.totalErrorX, t.totalErrorZ)

\* The loop of linearWorstCaseError with the bound i < observations.length - 1:
\* the sensitivity of the last observation is left out of the totals.
linearWorstCaseErrorButLast(observations, nominalE) ==
    HypotOfTotals(LinearTotals(observations, nominalE, Len(observations) - 1))

linearWorstCaseError(observations, nominalE) ==
    HypotOfTotals(LinearTotals(observations, nominalE, Len(observations)))

Estimate(nominal, errorRadius) ==
    [estimatedX |-> nominal.x, estimatedZ |-> nominal.z, errorRadius |-> errorRadius]

LinearEstimate(observations, nominal) ==
    Estimate(nominal, linearWorstCaseError(observations, nominal))

triangulateEventLinear(observations) ==
    IF Len(observations) = 0
    THEN Null
    ELSE LinearEstimate(observations, computeNominalIntersection(observations))

(***************************************************************************)
(* cracking/triangulation.ts: the corners of the uncertainty squares       *)
(***************************************************************************)
\* The corner of the square that cornerIndex stands for, as an offset:
\* 0 -> (0, 0), 1 -> (1, 0), 2 -> (0, 1), 3 -> (1, 1).
CornerOffset(cornerIndex) ==
    [dx |-> Num(cornerIndex % 2), dz |-> Num(cornerIndex \div 2)]

\* The ray of observation j in combination i: cornerIndex is the digit j of i
\* in base 4, lowest digit first.
CornerRay(obs, cornerIndex) ==
    RayThrough(obs, CornerOffset(cornerIndex).dx, CornerOffset(cornerIndex).dz)

\* cornerIndex taken from the lowest digit of i for every observation, as
\* when combo is not divided by 4 after each observation.
CornerIndexUndivided(i, j) == i % 4

\* cornerIndex of observation j (from 1) in combination i: combo % 4 after
\* j - 1 times combo = Math.floor(combo / 4).
CornerIndex(i, j) == (i \div (4 ^ (j - 1))) % 4

CornerRays(observations, i) ==
    [j \in 1..Len(observations) |->
        CornerRay(observations[j], CornerIndex(i, j))]

\* errorRadius of comprehensiveErrorRadius over the combinations lo..hi-1
\* (lo < hi): the largest distance from nominalE to their intersections, at
\* least 0.  The maximum does not depend on the order of the loop; the range
\* is halved to keep the evaluation shallow.
RECURSIVE MaxCornerDistance(_, _, _, _)
MaxCornerDistance(observations, nominalE, lo, hi) ==
    IF hi - lo = 1
    THEN Max2(distance(nominalE,
                       computeLeastSquaresIntersection(
                           CornerRays(observations, lo))),
              0)
    ELSE Max2(MaxCornerDistance(observations, nominalE, lo, (lo + hi) \div 2),
              MaxCornerDistance(observations, nominalE, (lo + hi) \div 2, hi))

comprehensiveErrorRadius(observations, nominalE) ==
    MaxCornerDistance(observations, nominalE, 0, 4 ^ Len(observations))

ComprehensiveEstimate(observations, nominal) ==
    Estimate(nominal, comprehensiveErrorRadius(observations, nominal))

triangulateEvent(observations) ==
    IF Len(observations) = 0
    THEN Null
    ELSE ComprehensiveEstimate(observations,
                               computeNominalIntersection(observations))

\* Angles.  Math.atan2 is not computed: two angular differences are compared
\* exactly, by the cross and dot products of the vectors from the sensor to
\* the corners, taken in half blocks.  The observations of the model lie on
\* the half-block grid, where HalfUnits is exact.
HalfUnits(a) == RoundDiv(a, Half)

\* Math.atan2(0, 0) is 0, the angle of (1, 0).
AngleVector(x, z) == IF x = 0 /\ z = 0 THEN Point(1, 0) ELSE Point(x, z)

\* The vector Q - P of angleForOffset.
SensorToCorner(obs, offset) ==
    AngleVector(HalfUnits(obs.relX + offset.dx - obs.playerX),
                HalfUnits(obs.relZ + offset.dz - obs.playerZ))

Cross(u, v) == u.x * v.z - u.z * v.x

Dot(u, v) == u.x * v.x + u.z * v.z

\* a - defaultAngle < -PI for a = atan2 of v and defaultAngle = atan2 of v0:
\* then (diff + PI) is negative, the remainder of JavaScript keeps its sign,
\* and diff comes out as 2 PI minus the angle between the vectors.
BelowMinusPi(v0, v) ==
    /\ v0.z > 0 \/ (v0.z = 0 /\ v0.x < 0)
    /\ v.z < 0
    /\ Cross(v0, v) > 0

\* diff of the loop of getCandidateOffsetsForObservation, kept as the sine
\* and cosine (both times the two lengths) of the angle between v0 and v.
AngularDifference(v0, v) ==
    [unwrapped |-> BelowMinusPi(v0, v), cross |-> Abs(Cross(v0, v)),
     dot |-> Dot(v0, v)]

\* 0 for an angle below PI/2, 1 for PI/2, 2 for an angle above.
Quadrant(dot) == IF dot > 0 THEN 0 ELSE IF dot = 0 THEN 1 ELSE 2

\* The angle of d1 is greater than the angle of d2, both in 0..PI.
AngleGreater(d1, d2) ==
    IF Quadrant(d1.dot) # Quadrant(d2.dot)
    THEN Quadrant(d1.dot) > Quadrant(d2.dot)
    ELSE IF d1.dot = 0 THEN FALSE
    ELSE d1.cross * d2.dot > d2.cross * d1.dot

\* diff > maxDiff.
DiffGreater(d1, d2) ==
    IF d1.unwrapped # d2.unwrapped THEN d1.unwrapped
    ELSE IF d1.unwrapped THEN AngleGreater(d2, d1)
    ELSE AngleGreater(d1, d2)

\* One turn of the loop of getCandidateOffsetsForObservation.
MoreExtreme(obs, extremeCandidate, cand) ==
    IF DiffGreater(
           AngularDifference(SensorToCorner(obs, CornerOffset(0)),
                             SensorToCorner(obs, cand)),
           AngularDifference(SensorToCorner(obs, CornerOffset(0)),
                             SensorToCorner(obs, extremeCandidate)))
    THEN cand
    ELSE extremeCandidate

\* The first candidate, (0, 0), has diff 0 > -1 and starts as the extreme.
getCandidateOffsetsForObservation(obs) ==
    [min |-> CornerOffset(0),
     max |-> MoreExtreme(obs,
                MoreExtreme(obs,
                    MoreExtreme(obs, CornerOffset(0), CornerOffset(1)),
                    CornerOffset(2)),
                CornerOffset(3))]

\* A variant that takes every offset twice: the sample point of the offset
\* (1, 1) is (relX + 2, relZ + 2), outside the square.
computeIntersectionForDoubledOffsets(observations, offsets) ==
    computeLeastSquaresIntersection(
        [i \in 1..Len(observations) |->
            RayThrough(observations[i], 2 * offsets[i].dx, 2 * offsets[i].dz)])

computeIntersectionForOffsets(observations, offsets) ==
    computeLeastSquaresIntersection(
        [i \in 1..Len(observations) |->
            RayThrough(observations[i], offsets[i].dx, offsets[i].dz)])

\* rec(i, offsets) of optimizedComprehensiveErrorRadius, i = Len(offsets): the
\* largest distance over the combinations that extend offsets.
RECURSIVE MaxCandidateDistance(_, _, _)
MaxCandidateDistance(observations, nominalE, offsets) ==
    IF Len(offsets) = Len(observations)
    THEN distance(nominalE, computeIntersectionForOffsets(observations, offsets))
    ELSE Max2(
            MaxCandidateDistance(observations, nominalE,
                Append(offsets,
                    getCandidateOffsetsForObservation(
                        observations[Len(offsets) + 1]).min)),
            MaxCandidateDistance(observations, nominalE,
                Append(offsets,
                    getCandidateOffsetsForObservation(
                        observations[Len(offsets) + 1]).max)))

optimizedComprehensiveErrorRadius(observations, nominalE) ==
    MaxCandidateDistance(observations, nominalE, <<>>)

\* triangulateEvent with the other of its two errorRadius lines.
OptimizedEstimate(observations, nominal) ==
    Estimate(nominal, optimizedComprehensiveErrorRadius(observations, nominal))

triangulateEventByCandidates(observations) ==
    IF Len(observations) = 0
    THEN Null
    ELSE OptimizedEstimate(observations,
                           computeNominalIntersection(observations))

(***************************************************************************)
(* cracking/triangulation.ts: covariance propagation                       *)
(***************************************************************************)
projectionMatrix(d) ==
    [m00 |-> SCALE - Mul(d.x, d.x), m01 |-> -Mul(d.x, d.z),
     m10 |-> -Mul(d.x, d.z),        m11 |-> SCALE - Mul(d.z, d.z)]

AddMatrix(S, P) ==
    [m00 |-> S.m00 + P.m00, m01 |-> S.m01 + P.m01,
     m10 |-> S.m10 + P.m10, m11 |-> S.m11 + P.m11]

\* S of computeCovariance after the first i observations.
RECURSIVE SumProjections(_, _)
SumProjections(observations, i) ==
    IF i = 0
    THEN [m00 |-> 0, m01 |-> 0, m10 |-> 0, m11 |-> 0]
    ELSE AddMatrix(SumProjections(observations, i - 1),
                   projectionMatrix(RayThrough(observations[i], Half, Half).d))

\* The square root of the variance 1e10 of the degenerate case, in blocks.
LargeDeviation == 100000

\* A value beyond the numbers of the model, in whole blocks.
WholeBlocks(k) == [blocks |-> k]

\* The inverse of S times sigma squared, or the large covariance: its
\* entries are not numbers of the model, the matrix is marked instead.
InvertAndScale(S, det, variance) ==
    IF IllConditioned(det)
    THEN [degenerate |-> TRUE, m00 |-> 0, m01 |-> 0, m10 |-> 0, m11 |-> 0]
    ELSE [degenerate |-> FALSE,
          m00 |-> Mul(Div(S.m11, det), variance),
          m01 |-> Mul(Div(-S.m01, det), variance),
          m10 |-> Mul(Div(-S.m10, det), variance),
          m11 |-> Mul(Div(S.m00, det), variance)]

MatrixDeterminant(S) == Mul(S.m00, S.m11) - Mul(S.m01, S.m10)

InvertSum(S, sigma) == InvertAndScale(S, MatrixDeterminant(S), Mul(sigma, sigma))

computeCovariance(observations, sigma) ==
    InvertSum(SumProjections(observations, Len(observations)), sigma)

\* Math.max(lambda1, lambda2) given trace and discriminant.
LargerRoot(trace, discriminant) ==
    Max2(Div(trace + discriminant, Num(2)), Div(trace - discriminant, Num(2)))

maxEigenvalue(M) ==
    LargerRoot(M.m00 + M.m11,
               Sqrt(Mul(M.m00 - M.m11, M.m00 - M.m11)
                    + Mul(Mul(Num(4), M.m01), M.m10)))

\* Math.sqrt(maxEigenvalue(cov)).
CovarianceRadius(cov) ==
    IF cov.degenerate THEN WholeBlocks(LargeDeviation)
    ELSE Sqrt(maxEigenvalue(cov))

CovarianceEstimate(observations, nominal, cov) ==
    [estimatedX |-> nominal.x, estimatedZ |-> nominal.z,
     errorRadius |-> CovarianceRadius(cov),
     offsets |-> [i \in 1..Len(observations) |-> [dx |-> Half, dz |-> Half]]]

triangulateEventCovariance(observations, sigma) ==
    IF Len(observations) = 0
    THEN Null
    ELSE CovarianceEstimate(observations,
                            computeNominalIntersection(observations),
                            computeCovariance(observations, sigma))

(***************************************************************************)
(* Foundry, Listener, Database, Discord                                    *)
(***************************************************************************)
\* users.length: the accounts of process.env.accounts.
NumAccounts == 3

\* The wither spawns that happen during a run.
NumEvents == 2

\* The calls of performCalculations that a run follows.
MaxSeals == 2

\* The batch window of the coincidence gate, in clock ticks.
batchWindow == 1

\* The sessions that end during a run.
MaxEnded == 1

Accounts == 1..NumAccounts

Events == 1..NumEvents

VARIABLES
    started,        \* startListeners: the number of Listener objects constructed
    soundListeners, \* the accounts set in the soundListeners map
    ended,          \* the accounts whose bot emitted "end"
    heard,          \* per account, the last event whose packet was delivered
    soundCache,     \* the soundCache map, in insertion order: <<[acc, wave], ...>>
    clearPending,   \* handlers suspended at "await this.performCalculations()"
    processed,      \* the calls of performCalculations so far, in order
    logPending,     \* INSERTs handed to the pool and not yet settled
    logTable,       \* the rows of wither_logs, in commit order
    logErrors,      \* the seals whose INSERT was rejected and caught
    chatPending,    \* embeds handed to the Discord client and not yet settled
    chatPosted,     \* the embeds sent
    chatErrors,     \* the seals whose embed failed and was caught
    uncaught,       \* a rejection escaped its async function
    age,            \* clock ticks since the first soundwave now in soundCache
    wither,         \* triangulation alone: the event the observations are of
    given,          \* triangulation alone: an observation list
    reordered,      \* triangulation alone: a permutation of that list
    outcome,        \* triangulation alone: per estimator, its two results
    args,           \* a function alone: the arguments of the call under study
    returned        \* a function alone: what the call returned, Null before it

gateVars == <<started, soundListeners, ended, heard, soundCache, clearPending,
              processed, logPending, logTable, logErrors, chatPending,
              chatPosted, chatErrors, uncaught, age>>

triVars == <<wither, given, reordered, outcome>>

funVars == <<args, returned>>

vars == <<gateVars, triVars, funVars>>

\* No function is under study on its own.
NoCall == args = Null /\ returned = Null

\* bot.entity.position of the bot of an account: the bots stand still.
BotPosition(a) ==
    CASE a = 1 -> Point(Num(0) + Half, Num(10) + Half)
      [] a = 2 -> Point(Num(10) + Half, Num(0) + Half)
      [] a = 3 -> Point(Num(22) + Half, Num(22) + Half)
      [] OTHER -> Point(Num(22) + Half, Num(0) + Half)

\* Where a wither spawns.
EventPosition(ev) == Point(Num(8 + 2 * ev), Num(9 + ev))

\* data.location of the world_event packet: an integer block position on the
\* line of sight from the bot to the event, half way.
LineOfSight(p, e) ==
    Point(Num(Floor(p.x + RoundDiv(e.x - p.x, 2))),
          Num(Floor(p.z + RoundDiv(e.z - p.z, 2))))

PacketLocation(a, ev) == LineOfSight(BotPosition(a), EventPosition(ev))

\* The Soundwave that Listener.onClientPacket emits.
Wave(a, ev) ==
    [user |-> a, ev |-> ev, bPosition |-> BotPosition(a),
     wPosition |-> PacketLocation(a, ev)]

MapKeys(map) == {map[i].acc : i \in 1..Len(map)}

\* Map.set: a key already present keeps its place.
MapSet(map, a, wave) ==
    IF a \in MapKeys(map)
    THEN [i \in 1..Len(map) |->
            IF map[i].acc = a THEN [acc |-> a, wave |-> wave] ELSE map[i]]
    ELSE Append(map, [acc |-> a, wave |-> wave])

\* The observations that performCalculations pushes, in soundCache.forEach order.
CacheObservations(map) ==
    [i \in 1..Len(map) |->
        Observation(map[i].wave.bPosition.x, map[i].wave.bPosition.z,
                    map[i].wave.wPosition.x, map[i].wave.wPosition.z)]

\* database.logSpawn is called with this row, or not at all.
LogRows(pos, seal) ==
    IF pos = Null THEN {}
    ELSE {[seal |-> seal, x |-> pos.estimatedX, y |-> 0, z |-> pos.estimatedZ]}

\* A variant that builds the embed from the x coordinate alone.
ChatEmbedsFromX(pos, seal) ==
    IF pos = Null THEN {}
    ELSE {[seal |-> seal, x |-> Floor(pos.estimatedX), y |-> 0,
           z |-> Floor(pos.estimatedX)]}

\* discord.sendCoordinatesEmbed is called with these coordinates, or not at all.
ChatEmbeds(pos, seal) ==
    IF pos = Null THEN {}
    ELSE {[seal |-> seal, x |-> Floor(pos.estimatedX), y |-> 0,
           z |-> Floor(pos.estimatedZ)]}

\* performCalculations on the cache: it runs to its end without suspending,
\* the two sink calls are not awaited.
EmitEstimate(map, a, pos, seal) ==
    /\ processed' = Append(processed,
            [by |-> a,
             batch |-> [i \in 1..Len(map) |-> map[i].wave], pos |-> pos])
    /\ logPending' = logPending \cup LogRows(pos, seal)
    /\ chatPending' = chatPending \cup ChatEmbeds(pos, seal)

\* What performCalculations reads of pos = triangulateEventLinear(observations):
\* whether it is null, and estimatedX and estimatedZ, which are the nominal
\* intersection.  The errorRadius of pos is not read.
PositionOf(nominal) == [estimatedX |-> nominal.x, estimatedZ |-> nominal.z]

EstimatedPosition(observations) ==
    IF Len(observations) = 0
    THEN Null
    ELSE PositionOf(computeNominalIntersection(observations))

performCalculations(map, a) ==
    EmitEstimate(map, a, EstimatedPosition(CacheObservations(map)),
                 Len(processed) + 1)

\* No handler is suspended between its seal and its soundCache.clear(): the
\* continuation of the await is a microtask, which runs before any other
\* callback of the event loop.
Idle == clearPending = 0

\* The condition under which the handler calls performCalculations.
SealCondition(map, listeners) == Len(map) = Cardinality(listeners)

\* The Foundry as constructed: no listener, empty maps, nothing in flight.
GateAtRest ==
    /\ started = 0
    /\ soundListeners = {}
    /\ ended = {}
    /\ heard = [a \in Accounts |-> 0]
    /\ soundCache = <<>>
    /\ clearPending = 0
    /\ processed = <<>>
    /\ logPending = {}
    /\ logTable = <<>>
    /\ logErrors = {}
    /\ chatPending = {}
    /\ chatPosted = {}
    /\ chatErrors = {}
    /\ uncaught = FALSE
    /\ age = 0

Init ==
    /\ GateAtRest
    /\ wither = 0
    /\ given = <<>>
    /\ reordered = <<>>
    /\ outcome = <<>>
    /\ NoCall

\* startListeners: one turn of the loop constructs the next Listener and
\* attaches the soundwave handler to it.
StartListener ==
    /\ ~uncaught /\ Idle
    /\ Len(processed) < MaxSeals
    /\ started < NumAccounts
    /\ started' = started + 1
    /\ UNCHANGED <<soundListeners, ended, heard, soundCache, clearPending,
                   processed, logPending, logTable, logErrors, chatPending,
                   chatPosted, chatErrors, uncaught, age>>
    /\ UNCHANGED <<triVars, funVars>>

\* listener.bot.once('spawn'): the account enters soundListeners.
Spawn(a) ==
    /\ ~uncaught /\ Idle
    /\ Len(processed) < MaxSeals
    /\ a <= started /\ a \notin ended /\ a \notin soundListeners
    /\ soundListeners' = soundListeners \cup {a}
    /\ UNCHANGED <<started, ended, heard, soundCache, clearPending,
                   processed, logPending, logTable, logErrors, chatPending,
                   chatPosted, chatErrors, uncaught, age>>
    /\ UNCHANGED <<triVars, funVars>>

\* Listener.onEnd: the session of a spawned bot is gone; the handler only
\* logs.
End(a) ==
    /\ ~uncaught /\ Idle
    /\ Len(processed) < MaxSeals
    /\ Cardinality(ended) < MaxEnded
    /\ a \in soundListeners /\ a \notin ended
    /\ ended' = ended \cup {a}
    /\ UNCHANGED <<started, soundListeners, heard, soundCache, clearPending,
                   processed, logPending, logTable, logErrors, chatPending,
                   chatPosted, chatErrors, uncaught, age>>
    /\ UNCHANGED <<triVars, funVars>>

\* A variant in which the handler of a packet waits for the sinks to settle.
CanDeliverAfterSinks(a, ev) ==
    /\ ~uncaught
    /\ Len(processed) < MaxSeals
    /\ a <= started /\ a \notin ended
    /\ IF Idle THEN TRUE ELSE processed[Len(processed)].by = a
    /\ heard[a] < ev
    /\ logPending = {} /\ chatPending = {}

\* The packet of event ev can reach the soundwave handler of account a: the
\* handler is attached when the Listener is constructed, a connection
\* delivers its packets in order, one per event, and while a handler is
\* suspended only further packets of the same read of the same socket can be
\* handled.  Nothing here looks at the sinks: logSpawn and
\* sendCoordinatesEmbed are not awaited.
CanDeliver(a, ev) ==
    /\ ~uncaught
    /\ Len(processed) < MaxSeals
    /\ a <= started /\ a \notin ended
    /\ IF Idle THEN TRUE ELSE processed[Len(processed)].by = a
    /\ heard[a] < ev

\* The soundwave handler of account a up to its await.
Soundwave(a, ev) ==
    /\ CanDeliver(a, ev)
    /\ heard' = [heard EXCEPT ![a] = ev]
    /\ soundCache' = MapSet(soundCache, a, Wave(a, ev))
    /\ IF SealCondition(soundCache', soundListeners)
       THEN /\ performCalculations(soundCache', a)
            /\ clearPending' = clearPending + 1
       ELSE UNCHANGED <<processed, logPending, chatPending, clearPending>>
    /\ age' = IF soundCache = <<>> THEN 0 ELSE age
    /\ UNCHANGED <<started, soundListeners, ended, logTable, logErrors,
                   chatPosted, chatErrors, uncaught>>
    /\ UNCHANGED <<triVars, funVars>>

\* The rest of the handler: this.soundCache.clear().
Clear ==
    /\ ~uncaught
    /\ clearPending > 0
    /\ clearPending' = clearPending - 1
    /\ soundCache' = <<>>
    /\ age' = 0
    /\ UNCHANGED <<started, soundListeners, ended, heard, processed, logPending,
                   logTable, logErrors, chatPending, chatPosted, chatErrors,
                   uncaught>>
    /\ UNCHANGED <<triVars, funVars>>

\* Database.logSpawn: pool.execute resolves, the row is committed.  The pool
\* runs the statements of different connections concurrently.
LogCommit ==
    /\ ~uncaught /\ Idle
    /\ \E op \in logPending :
        /\ logPending' = logPending \ {op}
        /\ logTable' = Append(logTable, op)
    /\ UNCHANGED <<started, soundListeners, ended, heard, soundCache,
                   clearPending, processed, logErrors, chatPending, chatPosted,
                   chatErrors, uncaught, age>>
    /\ UNCHANGED <<triVars, funVars>>

\* A variant of logSpawn without its try block: the rejection escapes.
LogFailUncaught ==
    /\ ~uncaught /\ Idle
    /\ \E op \in logPending :
        /\ logPending' = logPending \ {op}
        /\ uncaught' = TRUE
    /\ UNCHANGED <<started, soundListeners, ended, heard, soundCache,
                   clearPending, processed, logTable, logErrors, chatPending,
                   chatPosted, chatErrors, age>>
    /\ UNCHANGED <<triVars, funVars>>

\* Database.logSpawn: pool.execute rejects inside the try block.
LogFail ==
    /\ ~uncaught /\ Idle
    /\ \E op \in logPending :
        /\ logPending' = logPending \ {op}
        /\ logErrors' = logErrors \cup {op.seal}
    /\ UNCHANGED <<started, soundListeners, ended, heard, soundCache,
                   clearPending, processed, logTable, chatPending, chatPosted,
                   chatErrors, uncaught, age>>
    /\ UNCHANGED <<triVars, funVars>>

\* Discord.sendCoordinatesEmbed: the channel is fetched and the embed sent.
ChatSend ==
    /\ ~uncaught /\ Idle
    /\ \E op \in chatPending :
        /\ chatPending' = chatPending \ {op}
        /\ chatPosted' = chatPosted \cup {op}
    /\ UNCHANGED <<started, soundListeners, ended, heard, soundCache,
                   clearPending, processed, logPending, logTable, logErrors,
                   chatErrors, uncaught, age>>
    /\ UNCHANGED <<triVars, funVars>>

\* Discord.sendCoordinatesEmbed: fetch or send rejects inside the try block.
ChatFail ==
    /\ ~uncaught /\ Idle
    /\ \E op \in chatPending :
        /\ chatPending' = chatPending \ {op}
        /\ chatErrors' = chatErrors \cup {op.seal}
    /\ UNCHANGED <<started, soundListeners, ended, heard, soundCache,
                   clearPending, processed, logPending, logTable, logErrors,
                   chatPosted, uncaught, age>>
    /\ UNCHANGED <<triVars, funVars>>

\* Time passes while soundwaves wait in the cache.
Tick ==
    /\ ~uncaught /\ Idle
    /\ soundCache # <<>> /\ age < batchWindow
    /\ age' = age + 1
    /\ UNCHANGED <<started, soundListeners, ended, heard, soundCache,
                   clearPending, processed, logPending, logTable, logErrors,
                   chatPending, chatPosted, chatErrors, uncaught>>
    /\ UNCHANGED <<triVars, funVars>>

Next ==
    \/ StartListener
    \/ \E a \in Accounts : Spawn(a)
    \/ \E a \in Accounts : End(a)
    \/ \E a \in Accounts, ev \in Events : Soundwave(a, ev)
    \/ Clear
    \/ LogCommit
    \/ LogFail
    \/ ChatSend
    \/ ChatFail
    \/ Tick

Spec == Init /\ [][Next]_vars

(***************************************************************************)
(* The triangulation functions alone, on lists of observations             *)
(***************************************************************************)
\* The longest observation list.
MaxObservations == 3

\* The estimators, in the order in which a run applies them.
Estimators == <<"exhaustive", "optimized", "linear", "covariance">>

\* The Observation that performCalculations builds from the soundwave of
\* account a for event ev.
ObservationOf(a, ev) == CacheObservations(<<[acc |-> a, wave |-> Wave(a, ev)]>>)[1]

\* sigma: number = 1.
DefaultSigma == Num(1)

ApplyEstimator(kind, list) ==
    CASE kind = "exhaustive" -> triangulateEvent(list)
      [] kind = "optimized"  -> triangulateEventByCandidates(list)
      [] kind = "linear"     -> triangulateEventLinear(list)
      [] kind = "covariance" -> triangulateEventCovariance(list, DefaultSigma)

SwapAt(list, i) ==
    [j \in 1..Len(list) |->
        IF j = i THEN list[i + 1] ELSE IF j = i + 1 THEN list[i] ELSE list[j]]

InitTri ==
    /\ GateAtRest
    /\ wither \in Events
    /\ given = <<>>
    /\ reordered = <<>>
    /\ outcome = <<>>
    /\ NoCall

\* One more observation of the event, of an observer not yet in the list.
Observe(a) ==
    /\ Len(given) < MaxObservations
    /\ \A i \in 1..Len(given) : given[i] # ObservationOf(a, wither)
    /\ given' = Append(given, ObservationOf(a, wither))
    /\ reordered' = Append(reordered, ObservationOf(a, wither))
    /\ outcome' = <<>>
    /\ UNCHANGED <<wither, gateVars, funVars>>

\* Two neighbours of the permuted list change places.
Reorder(i) ==
    /\ i < Len(reordered)
    /\ reordered' = SwapAt(reordered, i)
    /\ outcome' = <<>>
    /\ UNCHANGED <<wither, given, gateVars, funVars>>

\* The next estimator is applied to the list and to its permutation.
Applying(kind) ==
    [estimator |-> kind,
     direct |-> ApplyEstimator(kind, given),
     permuted |-> ApplyEstimator(kind, reordered)]

Triangulate ==
    /\ Len(outcome) < Len(Estimators)
    /\ outcome' = Append(outcome, Applying(Estimators[Len(outcome) + 1]))
    /\ UNCHANGED <<wither, given, reordered, gateVars, funVars>>

NextTri ==
    \/ \E a \in Accounts : Observe(a)
    \/ \E i \in 1..MaxObservations : Reorder(i)
    \/ Triangulate

SpecTri == InitTri /\ [][NextTri]_vars

(***************************************************************************)
(* The estimators on a list of observations and on the same list moved by  *)
(* a whole number of blocks                                                *)
(***************************************************************************)
\* The shifts (dx, dz) that a run may apply, in blocks.
Shifts == {<<1, 0>>, <<-3, 2>>, <<7, -5>>, <<-20, -15>>}

\* The observation with dx added to playerX and relX, dz to playerZ and relZ.
Translated(obs, dx, dz) ==
    Observation(obs.playerX + Num(dx), obs.playerZ + Num(dz),
                obs.relX + Num(dx), obs.relZ + Num(dz))

TranslatedList(observations, dx, dz) ==
    [i \in 1..Len(observations) |-> Translated(observations[i], dx, dz)]

\* det of computeLeastSquaresIntersection for the rays through the centers.
NominalDeterminant(observations) ==
    Determinant(AccumulateRays(
        [i \in 1..Len(observations) |-> RayThrough(observations[i], Half, Half)],
        Len(observations)))

InitShift ==
    /\ GateAtRest
    /\ wither = 0 /\ given = <<>> /\ reordered = <<>> /\ outcome = <<>>
    /\ args \in {[ev |-> ev, last |-> 0, observations |-> <<>>,
                  dx |-> s[1], dz |-> s[2]] : ev \in Events, s \in Shifts}
    /\ returned = <<>>

\* One more observation of the event, of the next observers in turn.
ObserveFor(a) ==
    /\ returned = <<>>
    /\ a > args.last
    /\ Len(args.observations) < MaxObservations
    /\ args' = [args EXCEPT !.last = a,
                            !.observations = Append(@, ObservationOf(a, args.ev))]
    /\ UNCHANGED <<returned, gateVars, triVars>>

\* The next estimator applied to the list and to the moved list.
ApplyingMoved(kind, observations, dx, dz) ==
    [estimator |-> kind,
     illConditioned |-> IF observations = <<>> THEN FALSE
                        ELSE IllConditioned(NominalDeterminant(observations)),
     direct |-> ApplyEstimator(kind, observations),
     moved |-> ApplyEstimator(kind, TranslatedList(observations, dx, dz))]

TriangulateMoved ==
    /\ Len(returned) < Len(Estimators)
    /\ returned' = Append(returned,
                          ApplyingMoved(Estimators[Len(returned) + 1],
                                        args.observations, args.dx, args.dz))
    /\ UNCHANGED <<args, gateVars, triVars>>

NextShift ==
    \/ \E a \in Accounts : ObserveFor(a)
    \/ TriangulateMoved

SpecShift == InitShift /\ [][NextShift]_vars

(***************************************************************************)
(* computeLeastSquaresIntersection alone, on lists of rays                 *)
(***************************************************************************)
\* The factors by which a run multiplies the origins.
Scales == {2, 3, 5}

\* The displacement of a ray drawn alongside another, in blocks.
Alongside == Point(Num(3), Num(-1))

\* The ray with its origin multiplied by k and its direction kept.
ScaledRay(ray, k) == Ray(Point(k * ray.origin.x, k * ray.origin.z), ray.d)

ScaledRays(rays, k) == [i \in 1..Len(rays) |-> ScaledRay(rays[i], k)]

InitRays ==
    /\ GateAtRest
    /\ wither = 0 /\ given = <<>> /\ reordered = <<>> /\ outcome = <<>>
    /\ args \in {[ev |-> ev, last |-> 0, rays |-> <<>>, k |-> k] :
                    ev \in Events, k \in Scales}
    /\ returned = Null

\* One more ray: from the next observers in turn, through the center of the
\* square of its observation.
AimFrom(a) ==
    /\ returned = Null
    /\ a > args.last
    /\ Len(args.rays) < MaxObservations
    /\ args' = [args EXCEPT
                    !.last = a,
                    !.rays = Append(@, RayThrough(ObservationOf(a, args.ev),
                                                  Half, Half))]
    /\ UNCHANGED <<returned, gateVars, triVars>>

\* One more ray: parallel to the last one, from an origin beside it.
AimAlongside ==
    /\ returned = Null
    /\ args.rays # <<>>
    /\ Len(args.rays) < MaxObservations
    /\ args' = [args EXCEPT
                    !.rays = Append(@,
                        Ray(Point(@[Len(@)].origin.x + Alongside.x,
                                  @[Len(@)].origin.z + Alongside.z),
                            @[Len(@)].d))]
    /\ UNCHANGED <<returned, gateVars, triVars>>

\* computeLeastSquaresIntersection is called on the rays and on the rays
\* with their origins multiplied by k.
Solving(rays, k) ==
    [system |-> AccumulateRays(rays, Len(rays)),
     scaledSystem |-> AccumulateRays(ScaledRays(rays, k), Len(rays)),
     direct |-> computeLeastSquaresIntersection(rays),
     scaled |-> computeLeastSquaresIntersection(ScaledRays(rays, k))]

Solve ==
    /\ returned = Null
    /\ args.rays # <<>>
    /\ returned' = Solving(args.rays, args.k)
    /\ UNCHANGED <<args, gateVars, triVars>>

NextRays ==
    \/ \E a \in Accounts : AimFrom(a)
    \/ AimAlongside
    \/ Solve

SpecRays == InitRays /\ [][NextRays]_vars

(***************************************************************************)
(* cracking/build_test_utils.ts: javaInt, computeRelativeCoords            *)
(***************************************************************************)
\* 1 / eps for the eps = 1e-9 of javaInt.
EpsInv == 1000000000

\* Math.floor(x - eps) and Math.ceil(x + eps) for a number x.  eps is
\* positive and below 1 / SCALE, the last digit of x: x - eps has the floor
\* of x unless x is an integer, when its floor is one less, and x + eps has
\* the ceiling of x unless x is an integer, when its ceiling is one more.
FloorLess(x, epsInv) ==
    IF epsInv > SCALE /\ x % SCALE = 0 THEN (x \div SCALE) - 1 ELSE x \div SCALE

CeilMore(x, epsInv) ==
    IF epsInv > SCALE /\ x % SCALE = 0 THEN (x \div SCALE) + 1
    ELSE -((-x) \div SCALE)

javaInt(x) == IF x >= 0 THEN FloorLess(x, EpsInv) ELSE CeilMore(x, EpsInv)

\* relativeX, relativeZ of computeRelativeCoords: the point at viewDistance
\* from the player on the ray to the explosion.
ProjectAlong(playerX, playerZ, deltaX, deltaZ, dist, viewDistance) ==
    Point(playerX + Mul(Div(deltaX, dist), viewDistance),
          playerZ + Mul(Div(deltaZ, dist), viewDistance))

Projected(explosionX, explosionZ, playerX, playerZ, viewDistance) ==
    ProjectAlong(playerX, playerZ, explosionX - playerX, explosionZ - playerZ,
                 Sqrt(Mul(explosionX - playerX, explosionX - playerX)
                      + Mul(explosionZ - playerZ, explosionZ - playerZ)),
                 viewDistance)

\* distanceSq > viewDistance * viewDistance.
BeyondView(explosionX, explosionZ, playerX, playerZ, viewDistance) ==
    Mul(explosionX - playerX, explosionX - playerX)
        + Mul(explosionZ - playerZ, explosionZ - playerZ)
    > Mul(viewDistance, viewDistance)

RelativeOf(p) == [relX |-> javaInt(p.x), relZ |-> javaInt(p.z)]

computeRelativeCoords(explosionX, explosionZ, playerX, playerZ, viewDistance) ==
    IF BeyondView(explosionX, explosionZ, playerX, playerZ, viewDistance)
    THEN RelativeOf(Projected(explosionX, explosionZ, playerX, playerZ,
                              viewDistance))
    ELSE [relX |-> Floor(explosionX), relZ |-> Floor(explosionZ)]

\* The positions of the player, the explosions as seen from the player, in
\* blocks, and the view distances of a run.
PlayerPositions ==
    {Point(0, 0), Point(Half, Half), Point(Num(-3), Num(-3)),
     Point(Num(-20) - Half, Num(3) + Half)}

ExplosionOffsets ==
    {<<12, 16>>, <<24, 7>>, <<-15, -20>>, <<-16, 12>>, <<20, 0>>, <<0, -13>>,
     <<3, 4>>}

ViewDistances == {8, 10}

InitRelative ==
    /\ GateAtRest
    /\ wither = 0 /\ given = <<>> /\ reordered = <<>> /\ outcome = <<>>
    /\ args \in {[explosionX |-> p.x + Num(o[1]), explosionZ |-> p.z + Num(o[2]),
                  playerX |-> p.x, playerZ |-> p.z, viewDistance |-> Num(v)] :
                    p \in PlayerPositions, o \in ExplosionOffsets,
                    v \in ViewDistances}
    /\ returned = Null

\* computeRelativeCoords is called; the point it projected to is kept beside
\* what it returned.
RelativeCall(a) ==
    [beyondView |-> BeyondView(a.explosionX, a.explosionZ, a.playerX,
                               a.playerZ, a.viewDistance),
     projected |-> IF BeyondView(a.explosionX, a.explosionZ, a.playerX,
                                 a.playerZ, a.viewDistance)
                   THEN Projected(a.explosionX, a.explosionZ, a.playerX,
                                  a.playerZ, a.viewDistance)
                   ELSE Point(a.explosionX, a.explosionZ),
     relative |-> computeRelativeCoords(a.explosionX, a.explosionZ, a.playerX,
                                        a.playerZ, a.viewDistance)]

ComputeRelative ==
    /\ returned = Null
    /\ returned' = RelativeCall(args)
    /\ UNCHANGED <<args, gateVars, triVars>>

NextRelative == ComputeRelative

SpecRelative == InitRelative /\ [][NextRelative]_vars

(***************************************************************************)
(* drawing/polygonUtils.ts: the wedge of an observation                    *)
(***************************************************************************)
HalfPlane(a, b, c) == [a |-> a, b |-> b, c |-> c]

signedDistance(p, hp) == Mul(hp.a, p.x) + Mul(hp.b, p.z) - hp.c

\* The four corners of getWedgeHalfPlanes, in its order.
corners(obs) ==
    <<Point(obs.relX, obs.relZ), Point(obs.relX + Num(1), obs.relZ),
      Point(obs.relX, obs.relZ + Num(1)),
      Point(obs.relX + Num(1), obs.relZ + Num(1))>>

\* An angle is kept as the vector it is the Math.atan2 of, in half blocks:
\* (c.x - P.x, c.z - P.z).
angles(obs) ==
    [i \in 1..4 |-> AngleVector(HalfUnits(corners(obs)[i].x - obs.playerX),
                                HalfUnits(corners(obs)[i].z - obs.playerZ))]

\* Where Math.atan2 puts a vector in (-PI, PI]: 0 for the angles below 0,
\* 1 for the angle 0, 2 for the angles between 0 and PI, 3 for PI.
AtanRank(v) ==
    IF v.z < 0 THEN 0 ELSE IF v.z > 0 THEN 2 ELSE IF v.x > 0 THEN 1 ELSE 3

\* Math.atan2 of u is less than Math.atan2 of v.
AtanLess(u, v) ==
    \/ AtanRank(u) < AtanRank(v)
    \/ AtanRank(u) = AtanRank(v) /\ Cross(u, v) > 0

\* Math.min(...angles) and Math.max(...angles): no angle is unwrapped.
LesserAngle(u, v) == IF AtanLess(v, u) THEN v ELSE u

GreaterAngle(u, v) == IF AtanLess(u, v) THEN v ELSE u

thetaMin(a) == LesserAngle(LesserAngle(LesserAngle(a[1], a[2]), a[3]), a[4])

thetaMax(a) == GreaterAngle(GreaterAngle(GreaterAngle(a[1], a[2]), a[3]), a[4])

\* (Math.cos(theta), Math.sin(theta)) for the angle theta of the vector v.
CosSin(v) == normalize(Point(v.x * Half, v.z * Half))

\* lineFromPoint(theta), for cs the cosine and sine of theta.
lineFromPoint(P, cs) ==
    HalfPlane(-cs.z, cs.x, Mul(-cs.z, P.x) + Mul(cs.x, P.z))

\* The cosine and sine of midAngle = (thetaMin + thetaMax) / 2.  thetaMax -
\* thetaMin lies in [0, 2 PI): the middle angle is that of the sum of the two
\* unit vectors when the difference is below PI, of its opposite when the
\* difference is above PI, and thetaMin + PI / 2 when it is PI.
Opposite(p) == Point(-p.x, -p.z)

SumOfUnits(u, v) == normalize(Point(CosSin(u).x + CosSin(v).x,
                                    CosSin(u).z + CosSin(v).z))

midAngle(vmin, vmax) ==
    IF Cross(vmin, vmax) > 0 THEN SumOfUnits(vmin, vmax)
    ELSE IF Cross(vmin, vmax) < 0 THEN Opposite(SumOfUnits(vmin, vmax))
    ELSE IF Dot(vmin, vmax) > 0 THEN CosSin(vmin)
    ELSE Point(-CosSin(vmin).z, CosSin(vmin).x)

\* testDist, in blocks.  The source has 100000; the side of the line the test
\* point falls on does not depend on the distance.
testDist == 1000

testPoint(P, mid) ==
    Point(P.x + Mul(Num(testDist), mid.x), P.z + Mul(Num(testDist), mid.z))

Flipped(hp) == HalfPlane(-hp.a, -hp.b, -hp.c)

\* if (signedDistance(testPoint, hp) > 0) hp = { a: -hp.a, b: -hp.b, c: -hp.c }
KeepSide(hp, tp) == IF signedDistance(tp, hp) > 0 THEN Flipped(hp) ELSE hp

WedgeOf(P, vmin, vmax) ==
    <<KeepSide(lineFromPoint(P, CosSin(vmin)),
               testPoint(P, midAngle(vmin, vmax))),
      KeepSide(lineFromPoint(P, CosSin(vmax)),
               testPoint(P, midAngle(vmin, vmax)))>>

getWedgeHalfPlanes(obs) ==
    WedgeOf(Point(obs.playerX, obs.playerZ), thetaMin(angles(obs)),
            thetaMax(angles(obs)))

\* cracking/error_testing.ts: lineFromPointAngle, and its getWedgeHalfPlanes,
\* which returns the line at thetaMin as it is.
lineFromPointAngle(P, cs) ==
    [a |-> -cs.z, b |-> cs.x, c |-> Mul(-cs.z, P.x) + Mul(cs.x, P.z)]

getWedgeHalfPlanesOfErrorTesting(obs) ==
    <<lineFromPointAngle(Point(obs.playerX, obs.playerZ),
                         CosSin(thetaMin(angles(obs))))>>

\* The squares and the positions of the player, in half blocks from the
\* corner (relX, relZ) of the square, of a run.
HintSquares == {<<0, 0>>, <<-4, 2>>}

PlayerOffsets == -6..8

InitWedge ==
    /\ GateAtRest
    /\ wither = 0 /\ given = <<>> /\ reordered = <<>> /\ outcome = <<>>
    /\ args \in {Observation(Num(sq[1]) + i * Half, Num(sq[2]) + j * Half,
                             Num(sq[1]), Num(sq[2])) :
                    sq \in HintSquares, i \in PlayerOffsets,
                    j \in PlayerOffsets}
    /\ returned = Null

\* The wedge of the observation, with the angles and the test point it was
\* built from.
WedgeCall(obs) ==
    [made |-> "wedge",
     thetaMin |-> thetaMin(angles(obs)),
     thetaMax |-> thetaMax(angles(obs)),
     testPoint |-> testPoint(Point(obs.playerX, obs.playerZ),
                             midAngle(thetaMin(angles(obs)),
                                      thetaMax(angles(obs)))),
     wedge |-> getWedgeHalfPlanes(obs),
     errorTesting |-> getWedgeHalfPlanesOfErrorTesting(obs)]

MakeWedge ==
    /\ returned = Null
    /\ returned' = WedgeCall(args)
    /\ UNCHANGED <<args, gateVars, triVars>>

\* The nominal ray of the observation, as computeNominalIntersection makes it.
MakeRay ==
    /\ returned = Null
    /\ returned' = [made |-> "ray", ray |-> RayThrough(args, Half, Half)]
    /\ UNCHANGED <<args, gateVars, triVars>>

NextWedge == MakeWedge \/ MakeRay

SpecWedge == InitWedge /\ [][NextWedge]_vars

(***************************************************************************)
(* drawing/polygonUtils.ts: clipPolygonAgainstHalfPlane, intersectHalfPlanes *)
(***************************************************************************)
\* The digits of the 1e-12 that the denominator of a crossing is compared to.
DenomEpsDigits == 12

\* A half-plane of a list given to intersectHalfPlanes.  Its coefficients are
\* any three doubles; the model keeps them as the numbers a, b, c and a power
\* of ten e that divides all three, so that a half-plane with a normal far
\* below 1 / SCALE has a place: it stands for (a, b, c) / 10 ^ e.
ScaledHalfPlane(a, b, c, e) == [a |-> a, b |-> b, c |-> c, e |-> e]

\* signedDistance(p, hp) <= 0; dividing by 10 ^ e leaves the sign.
Inside(p, hp) == signedDistance(p, hp) <= 0

\* Math.abs(denom) > 1e-12 for the denominator denom / 10 ^ e: with SCALE =
\* 10 ^ 6, 1e-12 is 10 ^ (e - 6) in the units of denom, below one unit for
\* e < 6.
ExceedsDenomEps(denom, e) ==
    IF e < DenomEpsDigits - 6 THEN denom # 0
    ELSE Abs(denom) > 10 ^ (e - (DenomEpsDigits - 6))

\* denom and alpha of the edge from curr to next.
Denom(curr, next, hp) ==
    Mul(hp.a, next.x - curr.x) + Mul(hp.b, next.z - curr.z)

Alpha(curr, next, hp) ==
    Div(hp.c - (Mul(hp.a, curr.x) + Mul(hp.b, curr.z)), Denom(curr, next, hp))

\* A variant that takes the end of the edge for the crossing.
InterpolatedAtNext(curr, next, alpha) == next

Interpolated(curr, next, alpha) ==
    Point(curr.x + Mul(alpha, next.x - curr.x),
          curr.z + Mul(alpha, next.z - curr.z))

\* The crossing vertex of the edge, pushed when alpha is in [0, 1].
Crossing(curr, next, hp) ==
    IF /\ Inside(curr, hp) # Inside(next, hp)
       /\ ExceedsDenomEps(Denom(curr, next, hp), hp.e)
       /\ Alpha(curr, next, hp) >= 0
       /\ Alpha(curr, next, hp) <= SCALE
    THEN <<Interpolated(curr, next, Alpha(curr, next, hp))>>
    ELSE <<>>

\* What one turn of the loop pushes on clipped.
Pushed(curr, next, hp) ==
    (IF Inside(curr, hp) THEN <<curr>> ELSE <<>>) \o Crossing(curr, next, hp)

RECURSIVE ClippedUpTo(_, _, _)
ClippedUpTo(polygon, hp, i) ==
    IF i = 0 THEN <<>>
    ELSE ClippedUpTo(polygon, hp, i - 1)
            \o Pushed(polygon[i], polygon[(i % Len(polygon)) + 1], hp)

clipPolygonAgainstHalfPlane(polygon, hp) ==
    ClippedUpTo(polygon, hp, Len(polygon))

\* Half the side of the bounding square, in blocks.  The source has 1e9.
BoundingHalf == 4

BoundingSquare ==
    <<Point(Num(-BoundingHalf), Num(-BoundingHalf)),
      Point(Num(BoundingHalf), Num(-BoundingHalf)),
      Point(Num(BoundingHalf), Num(BoundingHalf)),
      Point(Num(-BoundingHalf), Num(BoundingHalf))>>

\* The polygon after the first k half-planes; clipping stops at the first
\* empty polygon.
RECURSIVE IntersectedUpTo(_, _)
IntersectedUpTo(hpList, k) ==
    IF k = 0 THEN BoundingSquare
    ELSE IF IntersectedUpTo(hpList, k - 1) = <<>> THEN <<>>
    ELSE clipPolygonAgainstHalfPlane(IntersectedUpTo(hpList, k - 1), hpList[k])

intersectHalfPlanes(hpList) == IntersectedUpTo(hpList, Len(hpList))

\* The power of ten of a half-plane with a normal far below the 1e-12.
TinyExponent == 13

\* The half-planes of a run: sides, diagonals, a unit normal off the axes,
\* lines along a side and through a corner of the bounding square, the two
\* half-planes with normal (0, 0), and a tiny multiple of x <= 0.
HalfPlaneChoices ==
    {ScaledHalfPlane(Num(1), 0, Num(1), 0),
     ScaledHalfPlane(Num(-1), 0, Num(2), 0),
     ScaledHalfPlane(0, Num(1), 0, 0),
     ScaledHalfPlane(0, Num(-1), Num(-1), 0),
     ScaledHalfPlane(Num(1), Num(1), Num(1), 0),
     ScaledHalfPlane(Num(-1), Num(-1), Num(-1), 0),
     ScaledHalfPlane(Num(1), Num(-1), 0, 0),
     ScaledHalfPlane(6 * (SCALE \div 10), 8 * (SCALE \div 10), 0, 0),
     ScaledHalfPlane(Num(1), 0, Num(-BoundingHalf), 0),
     ScaledHalfPlane(Num(1), Num(1), Num(-2 * BoundingHalf), 0),
     ScaledHalfPlane(0, 0, Num(-1), 0),
     ScaledHalfPlane(0, 0, 0, 0),
     ScaledHalfPlane(Num(1), 0, 0, TinyExponent)}

MaxHalfPlanes == 3

InitClip ==
    /\ GateAtRest
    /\ wither = 0 /\ given = <<>> /\ reordered = <<>> /\ outcome = <<>>
    /\ args = [hpList |-> <<>>]
    /\ returned = Null

\* One more half-plane on the list of the call to come.
AddHalfPlane(hp) ==
    /\ returned = Null
    /\ Len(args.hpList) < MaxHalfPlanes
    /\ args' = [hpList |-> Append(args.hpList, hp)]
    /\ UNCHANGED <<returned, gateVars, triVars>>

Intersect ==
    /\ returned = Null
    /\ returned' = [polygon |-> intersectHalfPlanes(args.hpList)]
    /\ UNCHANGED <<args, gateVars, triVars>>

NextClip == (\E hp \in HalfPlaneChoices : AddHalfPlane(hp)) \/ Intersect

SpecClip == InitClip /\ [][NextClip]_vars

(***************************************************************************)
(* drawing: buildErrorRegion, and the generateGraph that draws it          *)
(***************************************************************************)
\* hpList of buildErrorRegion: the wedges of the first i observations, one
\* after the other.
RECURSIVE WedgesUpTo(_, _)
WedgesUpTo(observations, i) ==
    IF i = 0 THEN <<>>
    ELSE WedgesUpTo(observations, i - 1)
            \o [k \in 1..2 |->
                  ScaledHalfPlane(getWedgeHalfPlanes(observations[i])[k].a,
                                  getWedgeHalfPlanes(observations[i])[k].b,
                                  getWedgeHalfPlanes(observations[i])[k].c, 0)]

buildErrorRegion(observations) ==
    intersectHalfPlanes(WedgesUpTo(observations, Len(observations)))

\* generateGraph draws the estimate of data on the canvas, takes polygon[0].x
\* of the region, draws the region and writes the canvas to outputFile.
\* polygon[0] of an empty array is undefined, and reading its x throws a
\* TypeError before anything is written.
DrawnRegion(data, polygon) ==
    IF polygon = <<>>
    THEN [threw |-> "TypeError", written |-> Null, polygon |-> polygon]
    ELSE [threw |-> "nothing",
          written |-> Point(data.estimatedX, data.estimatedZ),
          polygon |-> polygon]

generateGraph(inputs, data) == DrawnRegion(data, buildErrorRegion(inputs))

\* The observations of a drawing, two at a time: players around the square
\* (0, 0) that holds the event, and one player that looks away from it.
GraphInputs ==
    {Observation(-Num(3) - Half, Half, 0, 0),
     Observation(Half, -Num(3) - Half, 0, 0),
     Observation(Num(3) + Half, Half, 0, 0),
     Observation(Half, Num(3) + Half, 0, 0),
     Observation(-Num(3) - Half, -Num(3) - Half, 0, 0),
     Observation(Num(3) + Half, Num(3) + Half, 0, 0),
     Observation(-Num(2) - Half, Num(3) + Half, 0, 0),
     Observation(Num(3) + Half, -Num(2) - Half, 0, 0),
     Observation(-Num(3) - Half, Num(2), Num(-7), Num(2))}

InitGraph ==
    /\ GateAtRest
    /\ wither = 0 /\ given = <<>> /\ reordered = <<>> /\ outcome = <<>>
    /\ args \in {[inputs |-> pair] :
                    pair \in {p \in GraphInputs \X GraphInputs : p[1] # p[2]}}
    /\ returned = Null

\* const out = triangulateEventLinear(inputs)
TriangulateInputs ==
    /\ returned = Null
    /\ returned' = [out |-> triangulateEventLinear(args.inputs), graph |-> Null]
    /\ UNCHANGED <<args, gateVars, triVars>>

\* generateGraph(inputs, found, "output.png")
GenerateGraph ==
    /\ returned # Null
    /\ returned.graph = Null
    /\ returned.out # Null
    /\ returned' = [returned EXCEPT
                      !.graph = generateGraph(args.inputs, returned.out)]
    /\ UNCHANGED <<args, gateVars, triVars>>

NextGraph == TriangulateInputs \/ GenerateGraph

SpecGraph == InitGraph /\ [][NextGraph]_vars

(***************************************************************************)
(* cracking/triangulation.ts: getCandidateOffsetsForObservation alone      *)
(***************************************************************************)
InitCandidates ==
    /\ GateAtRest
    /\ wither = 0 /\ given = <<>> /\ reordered = <<>> /\ outcome = <<>>
    /\ args \in {Observation(Num(sq[1]) + i * Half, Num(sq[2]) + j * Half,
                             Num(sq[1]), Num(sq[2])) :
                    sq \in HintSquares, i \in PlayerOffsets,
                    j \in PlayerOffsets}
    /\ returned = Null

\* The two candidates of the observation, as rec of
\* optimizedComprehensiveErrorRadius asks for them.
GetCandidates ==
    /\ returned = Null
    /\ returned' = getCandidateOffsetsForObservation(args)
    /\ UNCHANGED <<args, gateVars, triVars>>

NextCandidates == GetCandidates

SpecCandidates == InitCandidates /\ [][NextCandidates]_vars

(***************************************************************************)
(* The estimators and the region solver on the array they are passed       *)
(***************************************************************************)
\* The arrays of a call of an estimator: the array passed in, and the array
\* obsPerturbX or obsPerturbZ that linearWorstCaseError writes to.
Store(observations) == [observations |-> observations, obsPerturb |-> <<>>]

\* The array passed in, written to when no copy of it is made.
PassedArray == "observations"

\* The array that obsPerturbX[i].relX += delta writes to: the one made by
\* observations.map(o => ({ ...o })), of new objects with the same fields.
PerturbedArray == "obsPerturb"

\* const obsPerturbX = observations.map(o => ({ ...o }));
\* obsPerturbX[i].relX += delta; and the same for relZ.
CopyAndPerturb(store, i, field) ==
    [[store EXCEPT ![PerturbedArray] = store.observations]
        EXCEPT ![PerturbedArray][i][field] = @ + delta]

\* The arrays after the first i turns of the loop of linearWorstCaseError.
RECURSIVE LinearStore(_, _)
LinearStore(store, i) ==
    IF i = 0
    THEN store
    ELSE CopyAndPerturb(CopyAndPerturb(LinearStore(store, i - 1), i, "relX"),
                        i, "relZ")

\* The array passed in as the call leaves it.  Of the four functions only
\* linearWorstCaseError has statements that write to an observation.
ObservationsAfter(kind, observations) ==
    IF kind = "linear"
    THEN LinearStore(Store(observations), Len(observations)).observations
    ELSE observations

PureCalls == {"exhaustive", "linear", "covariance", "region"}

ApplyPure(kind, observations) ==
    CASE kind = "exhaustive" -> triangulateEvent(observations)
      [] kind = "linear"     -> triangulateEventLinear(observations)
      [] kind = "covariance" -> triangulateEventCovariance(observations, Num(1))
      [] kind = "region"     -> buildErrorRegion(observations)

\* The observers of GraphInputs that heard the event in the square (0, 0).
PureInputs == {obs \in GraphInputs : obs.relX = 0 /\ obs.relZ = 0}

InitPure ==
    /\ GateAtRest
    /\ wither = 0 /\ given = <<>> /\ reordered = <<>> /\ outcome = <<>>
    /\ args \in {[observations |-> pair] :
                    pair \in {p \in PureInputs \X PureInputs : p[1] # p[2]}}
    /\ returned = Null

\* One of the four functions is called with the array of the caller.
CallPure(kind) ==
    /\ returned = Null
    /\ returned' = [called |-> kind, passed |-> args.observations,
                    out |-> ApplyPure(kind, args.observations)]
    /\ args' = [observations |-> ObservationsAfter(kind, args.observations)]
    /\ UNCHANGED <<gateVars, triVars>>

NextPure == \E kind \in PureCalls : CallPure(kind)

SpecPure == InitPure /\ [][NextPure]_vars

(***************************************************************************)
(* cracking/generators.ts: the observers of a test run                     *)
(***************************************************************************)
\* The observation of a generator for an observer at point: the hint is what
\* computeRelativeCoords gives for it.
ObservationAt(point, explosionX, explosionZ, viewDistance) ==
    Observation(point.x, point.z,
                Num(computeRelativeCoords(explosionX, explosionZ, point.x,
                                          point.z, viewDistance).relX),
                Num(computeRelativeCoords(explosionX, explosionZ, point.x,
                                          point.z, viewDistance).relZ))

ObservationsAt(points, explosionX, explosionZ, viewDistance) ==
    [i \in 1..Len(points) |->
        ObservationAt(points[i], explosionX, explosionZ, viewDistance)]

\* Math.floor(circleRadius * Math.cos(theta)) and the same of Math.sin for
\* theta a number q of quarter turns and a whole circleRadius.  Math.cos and
\* Math.sin of the doubles nearest to PI/2, PI and 3 PI/2 are not 0: the
\* cosine of 3 PI/2 is -1.8e-16, whose product has the floor -1.
QuarterTurnPoint(q, circleRadius) ==
    CASE q = 0 -> Point(circleRadius, 0)
      [] q = 1 -> Point(0, circleRadius)
      [] q = 2 -> Point(-circleRadius, 0)
      [] q = 3 -> Point(Num(-1), -circleRadius)

\* The loop of generateCircularObservations, for the numbers of observers
\* that divide the circle into quarter turns.
generateCircularObservations(numberOfBots, explosionX, explosionZ, circleRadius, viewDistance) ==
    ObservationsAt([k \in 1..numberOfBots |->
                       QuarterTurnPoint(((k - 1) * 4) \div numberOfBots,
                                        circleRadius)],
                   explosionX, explosionZ, viewDistance)

\* Math.ceil(Math.sqrt(n)).
CeilSqrt(n) == CHOOSE rows \in 1..n : rows * rows >= n /\ (rows - 1) * (rows - 1) < n

\* Math.ceil(n / d).
CeilDiv(n, d) == (n + d - 1) \div d

\* The centre of the cell of observer i (from 0) of the grid.
GridPoint(i, rows, cols, squareSize) ==
    Point(Mul(Num(i % cols) + Half, Div(squareSize, Num(cols)))
              - Div(squareSize, Num(2)),
          Mul(Num(i \div cols) + Half, Div(squareSize, Num(rows)))
              - Div(squareSize, Num(2)))

generateGridObservationsForN(numberOfBots, squareSize, explosionX, explosionZ, viewDistance) ==
    ObservationsAt([k \in 1..numberOfBots |->
                       GridPoint(k - 1, CeilSqrt(numberOfBots),
                                 CeilDiv(numberOfBots, CeilSqrt(numberOfBots)),
                                 squareSize)],
                   explosionX, explosionZ, viewDistance)

\* uniquePoints: the points in their order, a point already seen left out.
\* The keys of two points are equal when their coordinates are.
RECURSIVE UniquePoints(_, _)
UniquePoints(points, i) ==
    IF i = 0 THEN <<>>
    ELSE IF \E j \in 1..(i - 1) : points[j] = points[i]
         THEN UniquePoints(points, i - 1)
         ELSE Append(UniquePoints(points, i - 1), points[i])

\* An arm of count points from -halfSize to halfSize along the direction
\* (ux, uz), or the centre alone.
HorizontalArm(count, crossSize) ==
    IF count > 1
    THEN [k \in 1..count |->
            Point(-Div(crossSize, Num(2))
                      + Div((k - 1) * crossSize, Num(count - 1)), 0)]
    ELSE <<Point(0, 0)>>

VerticalArm(count, crossSize) ==
    IF count > 1
    THEN [k \in 1..count |->
            Point(0, -Div(crossSize, Num(2))
                         + Div((k - 1) * crossSize, Num(count - 1)))]
    ELSE <<Point(0, 0)>>

generateCrossObservations(numberOfBots, crossSize, explosionX, explosionZ, viewDistance) ==
    ObservationsAt(
        UniquePoints(HorizontalArm(CeilDiv(numberOfBots + 1, 2), crossSize)
                         \o VerticalArm((numberOfBots + 1) \div 2, crossSize),
                     CeilDiv(numberOfBots + 1, 2) + (numberOfBots + 1) \div 2),
        explosionX, explosionZ, viewDistance)

\* diag1 (slope 1) and diag2 (slope -1): t = i / (count - 1).
DiagonalArm(count, halfSize, slope) ==
    IF count > 1
    THEN [k \in 1..count |->
            Point(-halfSize + Mul(2 * halfSize, Div(Num(k - 1), Num(count - 1))),
                  slope * (-halfSize
                           + Mul(2 * halfSize, Div(Num(k - 1), Num(count - 1)))))]
    ELSE <<Point(0, 0)>>

generateDiagonalCrossObservations(numberOfBots, crossSize, explosionX, explosionZ, viewDistance) ==
    ObservationsAt(
        UniquePoints(DiagonalArm(CeilDiv(numberOfBots + 1, 2),
                                 Div(crossSize, Num(2)), 1)
                         \o DiagonalArm((numberOfBots + 1) \div 2,
                                        Div(crossSize, Num(2)), -1),
                     CeilDiv(numberOfBots + 1, 2) + (numberOfBots + 1) \div 2),
        explosionX, explosionZ, viewDistance)

\* The circle is taken for the numbers of observers whose angles are quarter
\* turns.
Generators == {"circle", "grid", "cross", "diagonalCross"}

MaxBots == 6

\* The extent of the pattern, the circle radius included, in blocks.
PatternSize == 8

\* The explosions of the runs, in blocks.
Explosions == {<<20, 12>>, <<-15, 20>>, <<3, 4>>}

InitGenerators ==
    /\ GateAtRest
    /\ wither = 0 /\ given = <<>> /\ reordered = <<>> /\ outcome = <<>>
    /\ args \in {[generator |-> g, numberOfBots |-> n, size |-> Num(PatternSize),
                  explosionX |-> Num(e[1]), explosionZ |-> Num(e[2]),
                  viewDistance |-> Num(v)] :
                    g \in Generators, n \in 1..MaxBots, e \in Explosions,
                    v \in ViewDistances}
    /\ args.generator = "circle" => 4 % args.numberOfBots = 0
    /\ returned = Null

Generated(a) ==
    CASE a.generator = "circle" ->
            generateCircularObservations(a.numberOfBots, a.explosionX,
                                         a.explosionZ, a.size, a.viewDistance)
      [] a.generator = "grid" ->
            generateGridObservationsForN(a.numberOfBots, a.size, a.explosionX,
                                         a.explosionZ, a.viewDistance)
      [] a.generator = "cross" ->
            generateCrossObservations(a.numberOfBots, a.size, a.explosionX,
                                      a.explosionZ, a.viewDistance)
      [] a.generator = "diagonalCross" ->
            generateDiagonalCrossObservations(a.numberOfBots, a.size,
                                              a.explosionX, a.explosionZ,
                                              a.viewDistance)

\* A generator is called.
Generate ==
    /\ returned = Null
    /\ returned' = [observations |-> Generated(args)]
    /\ UNCHANGED <<args, gateVars, triVars>>

NextGenerators == Generate

SpecGenerators == InitGenerators /\ [][NextGenerators]_vars

(***************************************************************************)
(* Properties of the gate and the sinks                                    *)
(***************************************************************************)

Seals == 1..Len(processed)

\* The sessions that have spawned and not ended.
Connected == soundListeners \ ended

CommittedAt(k) == {i \in 1..Len(logTable) : logTable[i].seal = k}

LogOps(k) ==
    {op \in logPending : op.seal = k} \cup {logTable[i] : i \in CommittedAt(k)}

\* The number of logSpawn calls made for seal k, whatever became of them.
LogWrites(k) ==
    Cardinality({op \in logPending : op.seal = k}) + Cardinality(CommittedAt(k))
        + (IF k \in logErrors THEN 1 ELSE 0)

ChatOps(k) == {op \in chatPending \cup chatPosted : op.seal = k}

\* The number of sendCoordinatesEmbed calls made for seal k.
ChatPosts(k) ==
    Cardinality(ChatOps(k)) + (IF k \in chatErrors THEN 1 ELSE 0)

AllSinkSeals ==
    {op.seal : op \in logPending \cup chatPending \cup chatPosted}
        \cup {logTable[i].seal : i \in 1..Len(logTable)}
        \cup logErrors \cup chatErrors

SinkPending == logPending # {} \/ chatPending # {}

\* C1: every batch handed to performCalculations holds exactly one soundwave
\* of each account that was in soundListeners at that moment, so that no batch
\* is handed over while an active account has not reported.
C1_BatchIsTheActiveSet ==
    [][Len(processed') > Len(processed) =>
        /\ MapKeys(soundCache') = soundListeners
        /\ Len(processed'[Len(processed')].batch) = Cardinality(soundListeners)]_vars

\* C2: soundwaves of active accounts do not stay in the cache once batchWindow
\* has passed since the first of them arrived: by then the cache has been
\* handed over or emptied.
C2_ClosedAfterBatchWindow ==
    (Idle /\ soundCache # <<>> /\ MapKeys(soundCache) \subseteq soundListeners)
        => age < batchWindow

\* C3: a soundwave of an account that already has one in the cache leaves the
\* cache holding the new soundwave alone, and the earlier soundwaves are what
\* was handed over when there were at least two of them.
C3_SecondHintStartsNewBatch ==
    [][\A a \in Accounts :
        (Idle /\ heard'[a] # heard[a] /\ a \in MapKeys(soundCache))
            => /\ MapKeys(soundCache') = {a}
               /\ Len(soundCache) >= 2 =>
                    /\ Len(processed') = Len(processed) + 1
                    /\ processed'[Len(processed')].batch
                         = [i \in 1..Len(soundCache) |-> soundCache[i].wave]]_vars

\* C4: a batch of fewer than two soundwaves gives no estimate, and nothing is
\* written to the log or posted to the chat for it.
C4_NoEstimateFromOneObservation ==
    \A k \in Seals :
        Len(processed[k].batch) < 2
            => /\ processed[k].pos = Null
               /\ LogWrites(k) = 0
               /\ ChatPosts(k) = 0

\* C5: after a session has ended, with at least two sessions still connected,
\* the soundwaves of one event from all the connected sessions do not stay in
\* the cache: they are handed over when the last of them arrives.
C5_SealsAfterDisconnect ==
    ~ /\ Idle
      /\ ended # {}
      /\ Cardinality(Connected) >= 2
      /\ \E ev \in Events :
            \A a \in Connected :
                \E i \in 1..Len(soundCache) :
                    soundCache[i].acc = a /\ soundCache[i].wave.ev = ev

\* C6: every call of performCalculations yields one estimate, one logSpawn
\* call and one sendCoordinatesEmbed call, the row carrying the estimate's
\* (x, z) and the embed their floors; no sink call exists without its seal and
\* no two calls of performCalculations were given the same batch.
C6_OneEstimateOneLogOneChat ==
    /\ \A k \in Seals :
        /\ processed[k].pos # Null
        /\ LogWrites(k) = 1
        /\ ChatPosts(k) = 1
        /\ \A op \in LogOps(k) :
            /\ op.x = processed[k].pos.estimatedX
            /\ op.z = processed[k].pos.estimatedZ
        /\ \A op \in ChatOps(k) :
            /\ op.x = Floor(processed[k].pos.estimatedX)
            /\ op.z = Floor(processed[k].pos.estimatedZ)
    /\ AllSinkSeals \subseteq Seals
    /\ \A j \in Seals, k \in Seals : j < k => processed[j].batch # processed[k].batch

\* C6 happens: two batches of two or more soundwaves were processed, an
\* estimate has different floors of x and z,
\* both rows are committed and both embeds posted.
C6_Witness ==
    /\ Len(processed) = 2
    /\ \A k \in Seals : Len(processed[k].batch) >= 2
    /\ Len(logTable) = 2
    /\ Cardinality(chatPosted) = 2
    /\ \E op \in chatPosted : op.x # op.z

\* C7: the rows of the log table are in the order of the seals they belong to.
C7_LogRowsInSealOrder ==
    \A i \in 1..Len(logTable), j \in 1..Len(logTable) :
        i < j => logTable[i].seal < logTable[j].seal

\* C8: while a logSpawn or sendCoordinatesEmbed call is pending, the soundwave
\* of any connected account can be handled at once, and handling it puts it
\* into the cache without any pending sink call having settled.
C8_HintAcceptedWhileSinkPending ==
    /\ [](SinkPending =>
            \A a \in Accounts, ev \in Events :
                (/\ ~uncaught /\ Idle /\ Len(processed) < MaxSeals
                 /\ a <= started /\ a \notin ended /\ heard[a] < ev)
                    => CanDeliver(a, ev))
    /\ [][(SinkPending /\ heard' # heard) =>
            /\ \A a \in Accounts :
                heard'[a] # heard[a] =>
                    \E i \in 1..Len(soundCache') :
                        /\ soundCache'[i].acc = a
                        /\ soundCache'[i].wave.ev = heard'[a]
            /\ logPending \subseteq logPending'
            /\ chatPending \subseteq chatPending'
            /\ logTable' = logTable /\ chatPosted' = chatPosted]_vars

\* C8 happens: a sink call of the first batch is still pending and the cache
\* holds a soundwave that arrived after that batch was handed over.
C8_Witness ==
    /\ Idle
    /\ \E op \in logPending \cup chatPending : op.seal = 1
    /\ Len(processed) = 1
    /\ soundCache # <<>>

\* C9: a rejected logSpawn or sendCoordinatesEmbed call is recorded at its
\* sink and nothing escapes; the step leaves the cache, the listeners and the
\* processed batches as they were, and does not touch the other sink.
C9_SinkFailureIsContained ==
    /\ [](~uncaught)
    /\ [][(logErrors' # logErrors \/ chatErrors' # chatErrors) =>
            /\ UNCHANGED <<started, soundListeners, ended, heard, soundCache,
                           clearPending, processed>>
            /\ logErrors' # logErrors =>
                    UNCHANGED <<chatPending, chatPosted, chatErrors>>
            /\ chatErrors' # chatErrors =>
                    UNCHANGED <<logPending, logTable, logErrors>>]_vars

\* C9 happens: the log write of the first batch failed, its embed was posted
\* all the same, the embed of the second batch failed and its row is
\* committed.
C9_Witness ==
    /\ logErrors = {1}
    /\ chatErrors = {2}
    /\ \E op \in chatPosted : op.seal = 1
    /\ Len(logTable) = 1 /\ logTable[1].seal = 2

(***************************************************************************)
(* Properties of the triangulation functions                               *)
(***************************************************************************)

ShiftTolerance == 200

\* linearWorstCaseError divides differences of estimates by delta: their
\* rounding grows by 1 / delta.
RadiusTolerance(kind) ==
    IF kind = "linear" THEN ShiftTolerance * DeltaInv ELSE ShiftTolerance

Within(a, b, tolerance) == Abs(a - b) <= tolerance

\* The case of computeCovariance whose radius is no number of the model.
LargeRadius(r) == r.estimator = "covariance" /\ r.illConditioned

C12_ScaleEquivariant ==
    returned # Null =>
        /\ Determinant(returned.scaledSystem) = Determinant(returned.system)
        /\ Within(returned.scaled.x, args.k * returned.direct.x,
                  IF IllConditioned(Determinant(returned.system))
                  THEN args.k ELSE args.k * ShiftTolerance)
        /\ Within(returned.scaled.z, args.k * returned.direct.z,
                  IF IllConditioned(Determinant(returned.system))
                  THEN args.k ELSE args.k * ShiftTolerance)

\* C12 happens on the solved branch: three rays, not all parallel, were
\* solved, and the point is not the origin of the plane.
C12_Witness ==
    /\ returned # Null
    /\ Len(args.rays) = 3
    /\ ~IllConditioned(Determinant(returned.system))
    /\ returned.direct.x # 0
    /\ returned.scaled # returned.direct

\* The arithmetic mean of the origins of the rays.
MeanOfOrigins(rays, s) ==
    Point(RoundDiv(s.sumX, Len(rays)), RoundDiv(s.sumZ, Len(rays)))

\* A E - b for the accumulated system s and the point E.
Residual(s, E) ==
    Point(Mul(s.A00, E.x) + Mul(s.A01, E.z) - s.b0,
          Mul(s.A10, E.x) + Mul(s.A11, E.z) - s.b1)

RadiusInBlocks(kind, illConditioned, errorRadius) ==
    IF kind = "covariance" /\ illConditioned
    THEN errorRadius.blocks
    ELSE Floor(errorRadius)

\* C14: when the system of the rays through the centers is ill-conditioned,
\* the errorRadius returned by each estimator is +infinity: it is above
\* every finite radius, and so above the 1e5 blocks of the degenerate
\* covariance.
C14_IllConditionedRadiusInfinite ==
    \A k \in 1..Len(outcome) :
        (given # <<>> /\ IllConditioned(NominalDeterminant(given)))
            => RadiusInBlocks(outcome[k].estimator, TRUE,
                              outcome[k].direct.errorRadius) > LargeDeviation

(***************************************************************************)
(* Properties of computeRelativeCoords                                     *)
(***************************************************************************)
\* The truncation of a number toward zero, as an integer.
Truncated(x) == IF x >= 0 THEN x \div SCALE ELSE -((-x) \div SCALE)

\* C15: for an observer beyond the view distance, computeRelativeCoords
\* returns for each coordinate of the projected point its truncation toward
\* zero, whole numbers and 0 included.
C15_RelativeIsTruncation ==
    (returned # Null /\ returned.beyondView) =>
        /\ returned.relative.relX = Truncated(returned.projected.x)
        /\ returned.relative.relZ = Truncated(returned.projected.z)

\* C16: the point that computeRelativeCoords projected to (the explosion
\* itself within the view distance) lies in the unit square of what it
\* returned: relX <= x < relX + 1 and relZ <= z < relZ + 1.
C16_ProjectedInUnitSquare ==
    returned # Null =>
        /\ Num(returned.relative.relX) <= returned.projected.x
        /\ returned.projected.x < Num(returned.relative.relX + 1)
        /\ Num(returned.relative.relZ) <= returned.projected.z
        /\ returned.projected.z < Num(returned.relative.relZ + 1)

(***************************************************************************)
(* Properties of the wedge of an observation                               *)
(***************************************************************************)
\* The ray from the player in the -x direction passes through the inside of
\* the square: the player is beyond the side relX + 1, between the sides relZ
\* and relZ + 1, and the corners have angles on both sides of PI.
StraddlesPi(obs) ==
    /\ obs.playerX > obs.relX + Num(1)
    /\ obs.relZ < obs.playerZ
    /\ obs.playerZ < obs.relZ + Num(1)

\* lo and hi bound the contiguous interval of the angles a: every angle is
\* at or counter-clockwise of lo and at or clockwise of hi, less than half a
\* turn away.
BoundsContiguous(lo, hi, a) ==
    \A i \in 1..4 : Cross(lo, a[i]) >= 0 /\ Cross(a[i], hi) >= 0

\* C17: for an observation whose square straddles the ray from the player in
\* the -x direction, thetaMin and thetaMax of getWedgeHalfPlanes are the
\* bounds of the contiguous interval, narrower than PI, that holds the
\* angles of the four corners.
C17_WedgeBoundsUnwrapped ==
    (returned # Null /\ returned.made = "wedge" /\ StraddlesPi(args)) =>
        BoundsContiguous(returned.thetaMin, returned.thetaMax, angles(args))

\* hp is the line through P at the angle of cosine and sine cs, with normal
\* (-sin, cos) or its opposite.
LineThrough(hp, P, cs) ==
    /\ \/ hp.a = -cs.z /\ hp.b = cs.x
       \/ hp.a = cs.z /\ hp.b = -cs.x
    /\ hp.c = Mul(hp.a, P.x) + Mul(hp.b, P.z)

\* w is two half-planes, the lines through P at the angles of vmin and vmax,
\* and tp satisfies a x + b z <= c for both.
TwoSidesKept(w, P, vmin, vmax, tp) ==
    /\ Len(w) = 2
    /\ LineThrough(w[1], P, CosSin(vmin))
    /\ LineThrough(w[2], P, CosSin(vmax))
    /\ Mul(w[1].a, tp.x) + Mul(w[1].b, tp.z) <= w[1].c
    /\ Mul(w[2].a, tp.x) + Mul(w[2].b, tp.z) <= w[2].c

\* C18: every getWedgeHalfPlanes (drawing/polygonUtils.ts, and the one of
\* cracking/error_testing.ts) returns exactly two half-planes, the lines
\* through the player at thetaMin and thetaMax with normal (-sin, cos), each
\* negated where needed so that the test point at the middle angle satisfies
\* a x + b z <= c for both.
C18_TwoHalfPlanesKeepTestPoint ==
    (returned # Null /\ returned.made = "wedge") =>
        /\ TwoSidesKept(returned.wedge, Point(args.playerX, args.playerZ),
                        returned.thetaMin, returned.thetaMax,
                        returned.testPoint)
        /\ TwoSidesKept(returned.errorTesting,
                        Point(args.playerX, args.playerZ), returned.thetaMin,
                        returned.thetaMax, returned.testPoint)

\* The player is inside the unit square of the observation.
InsideOwnSquare(obs) ==
    /\ obs.relX < obs.playerX /\ obs.playerX < obs.relX + Num(1)
    /\ obs.relZ < obs.playerZ /\ obs.playerZ < obs.relZ + Num(1)

\* C19: an observation whose player is inside its own unit square, the centre
\* included, is rejected: no ray, direction or wedge is made of it.
C19_InsideOwnSquareRejected ==
    (returned # Null /\ InsideOwnSquare(args)) =>
        /\ returned.made = "ray" => returned.ray = Null
        /\ returned.made = "wedge" => returned.wedge = <<>>

(***************************************************************************)
(* Properties of intersectHalfPlanes                                       *)
(***************************************************************************)
\* The points of the bounding square on the grid of half blocks.
GridPoints ==
    {Point(i * Half, j * Half) :
        i \in (-2 * BoundingHalf)..(2 * BoundingHalf),
        j \in (-2 * BoundingHalf)..(2 * BoundingHalf)}

\* What the rounding of the vertices may add to a signed distance or to a
\* cross product.
EdgeTolerance == 100

\* p is on the left of, or on, the edge from u to v, up to tolerance.
LeftOrOn(p, u, v, tolerance) ==
    Mul(v.x - u.x, p.z - u.z) - Mul(v.z - u.z, p.x - u.x) >= -tolerance

\* p lies in the convex counter-clockwise polygon: on the left of every edge
\* and, for a polygon that is a segment or a point, between its vertices.
InPolygon(p, polygon, tolerance) ==
    /\ polygon # <<>>
    /\ \A i \in 1..Len(polygon) :
          LeftOrOn(p, polygon[i], polygon[(i % Len(polygon)) + 1], tolerance)
    /\ \E i \in 1..Len(polygon) : polygon[i].x <= p.x + tolerance
    /\ \E i \in 1..Len(polygon) : polygon[i].x >= p.x - tolerance
    /\ \E i \in 1..Len(polygon) : polygon[i].z <= p.z + tolerance
    /\ \E i \in 1..Len(polygon) : polygon[i].z >= p.z - tolerance

\* a x + b z <= c + margin for every half-plane of the list.
SatisfiesAll(p, hpList, margin) ==
    \A k \in 1..Len(hpList) : signedDistance(p, hpList[k]) <= margin

\* No crossing of the list can fall under the 1e-12: the coefficients are not
\* divided by a power of ten that reaches it.
NormalsNotTiny(hpList) ==
    \A k \in 1..Len(hpList) : hpList[k].e < DenomEpsDigits - 6

TurnsLeft(polygon, i) ==
    LeftOrOn(polygon[(((i + 1) % Len(polygon))) + 1], polygon[i],
             polygon[(i % Len(polygon)) + 1], EdgeTolerance)

\* No vertex of the polygon equals the one after it.
NoEqualAdjacent(polygon) ==
    \A i \in 1..Len(polygon) :
        Len(polygon) > 1 => polygon[i] # polygon[(i % Len(polygon)) + 1]

\* C21: after any sequence of clips, a non-empty polygon that
\* intersectHalfPlanes returned is convex and counter-clockwise, and no two
\* adjacent vertices of it are equal: a vertex that lies exactly on the
\* clipping line is emitted once.
C21_ConvexWithoutRepeatedVertex ==
    (returned # Null /\ returned.polygon # <<>>) =>
        /\ \A i \in 1..Len(returned.polygon) : TurnsLeft(returned.polygon, i)
        /\ NoEqualAdjacent(returned.polygon)

(***************************************************************************)
(* Properties of the drawing of a batch                                    *)
(***************************************************************************)
\* C22: when the region solver returns an empty polygon for a batch, the
\* point estimate of the batch is still produced and emitted, without a
\* polygon, and the processing of the batch ends without an exception.
C22_EmptyRegionStillEmitted ==
    (returned # Null /\ returned.graph # Null
        /\ returned.graph.polygon = <<>>) =>
        /\ returned.graph.threw = "nothing"
        /\ returned.graph.written
              = Point(returned.out.estimatedX, returned.out.estimatedZ)


(***************************************************************************)
(* The exhaustive corner estimator                                         *)
(***************************************************************************)
\* The corner assignments of n observations: one of the four corners for each.
CornerAssignments(n) == [1..n -> 0..3]

\* The corner k of the square of obs: (relX + (k & 1), relZ + ((k >> 1) & 1)).
CornerPoint(obs, k) ==
    Point(obs.relX + Num(k % 2), obs.relZ + Num((k \div 2) % 2))

\* The rays from the observers to the corners of an assignment.
AssignedRays(observations, corner) ==
    [j \in 1..Len(observations) |->
        Ray(Point(observations[j].playerX, observations[j].playerZ),
            normalize(Point(
                CornerPoint(observations[j], corner[j]).x - observations[j].playerX,
                CornerPoint(observations[j], corner[j]).z - observations[j].playerZ)))]

\* The distances from the nominal estimate to the solutions of all assignments.
CornerDistances(observations, nominalE) ==
    {distance(nominalE,
              computeLeastSquaresIntersection(AssignedRays(observations, corner))) :
        corner \in CornerAssignments(Len(observations))}

Largest(S) == CHOOSE m \in S : \A x \in S : x <= m

\* The combinations of the loop that stand for the assignment corner.
CombinationsOf(n, corner) ==
    {i \in 0..(4 ^ n - 1) : \A j \in 1..n : CornerIndex(i, j) = corner[j]}

ExhaustiveOutcome(k) ==
    /\ k \in 1..Len(outcome)
    /\ outcome[k].estimator = "exhaustive"
    /\ outcome[k].direct # Null

\* C23: comprehensiveErrorRadius solves each of the 4^n corner assignments of
\* the n observations exactly once, the corner k of an observation being
\* (relX + (k & 1), relZ + ((k >> 1) & 1)), and the errorRadius it returns is
\* the largest distance from the nominal estimate to any of these solutions.
C23_EveryCornerAssignmentOnce ==
    \A k \in 1..Len(outcome) :
        ExhaustiveOutcome(k) =>
            /\ \A corner \in CornerAssignments(Len(given)) :
                   /\ Cardinality(CombinationsOf(Len(given), corner)) = 1
                   /\ \A i \in CombinationsOf(Len(given), corner) :
                          CornerRays(given, i) = AssignedRays(given, corner)
            /\ outcome[k].direct.errorRadius =
                   Largest(CornerDistances(
                       given, Point(outcome[k].direct.estimatedX,
                                    outcome[k].direct.estimatedZ)))

\* Three observations estimated, the largest distance being that of an
\* assignment that takes different corners for different observations.
C23_Witness ==
    /\ Len(given) = 3
    /\ ExhaustiveOutcome(1)
    /\ outcome[1].direct.errorRadius > 0
    /\ \A c \in 0..3 :
           distance(Point(outcome[1].direct.estimatedX,
                          outcome[1].direct.estimatedZ),
                    computeLeastSquaresIntersection(
                        AssignedRays(given, [j \in 1..3 |-> c])))
               < outcome[1].direct.errorRadius


(***************************************************************************)
(* The candidates of the optimized corner estimator                        *)
(***************************************************************************)
\* Two vectors with the same bearing.
SameBearing(u, v) == Cross(u, v) = 0 /\ Dot(u, v) > 0

\* The corners of the two candidates have, in one order or the other, the
\* least and the greatest of the four bearings from the observer.
RealizeBounds(obs, candidates) ==
    \/ /\ SameBearing(SensorToCorner(obs, candidates.min), thetaMin(angles(obs)))
       /\ SameBearing(SensorToCorner(obs, candidates.max), thetaMax(angles(obs)))
    \/ /\ SameBearing(SensorToCorner(obs, candidates.max), thetaMin(angles(obs)))
       /\ SameBearing(SensorToCorner(obs, candidates.min), thetaMax(angles(obs)))

\* C24: the two candidate corners that the optimized corner estimator takes
\* for an observation are the corners of the unit square with the minimum and
\* the maximum bearing from the observer.  Stated for the observations whose
\* four bearings do not wrap around PI, where the least and the greatest
\* bearing bound the wedge.
C24_CandidatesRealizeBounds ==
    (/\ returned # Null
     /\ ~InsideOwnSquare(args)
     /\ BoundsContiguous(thetaMin(angles(args)), thetaMax(angles(args)),
                         angles(args)))
        => RealizeBounds(args, returned)


(***************************************************************************)
(* The optimized against the exhaustive corner estimator                   *)
(***************************************************************************)
\* The combinations of rec: for every observation its min or its max candidate.
CandidateCombinations(observations) ==
    {[j \in 1..Len(observations) |->
          IF pick[j] = 0
          THEN getCandidateOffsetsForObservation(observations[j]).min
          ELSE getCandidateOffsetsForObservation(observations[j]).max] :
        pick \in [1..Len(observations) -> 0..1]}

\* The solutions of the 4^n combinations of comprehensiveErrorRadius.
CornerSolutions(observations) ==
    {computeLeastSquaresIntersection(CornerRays(observations, i)) :
        i \in 0..(4 ^ Len(observations) - 1)}

BothCornerOutcomes ==
    /\ Len(outcome) >= 2
    /\ outcome[1].estimator = "exhaustive" /\ outcome[1].direct # Null
    /\ outcome[2].estimator = "optimized" /\ outcome[2].direct # Null

\* C30: for a list of observations and its nominal estimate, the errorRadius
\* of optimizedComprehensiveErrorRadius is at most that of
\* comprehensiveErrorRadius, and every combination of offsets that the
\* optimized estimator solves is one of the 4^n corner assignments that the
\* exhaustive estimator solves.
C30_OptimizedAtMostExhaustive ==
    BothCornerOutcomes =>
        /\ outcome[2].direct.errorRadius <= outcome[1].direct.errorRadius
        /\ \A offsets \in CandidateCombinations(given) :
               computeIntersectionForOffsets(given, offsets)
                   \in CornerSolutions(given)

\* Several observations, both estimators applied, the optimized errorRadius
\* positive and strictly below the exhaustive one.
C30_Witness ==
    /\ Len(given) >= 2
    /\ BothCornerOutcomes
    /\ 0 < outcome[2].direct.errorRadius
    /\ outcome[2].direct.errorRadius < outcome[1].direct.errorRadius


(***************************************************************************)
(* One more observation                                                    *)
(***************************************************************************)
\* The list without its last observation.
Front(list) == SubSeq(list, 1, Len(list) - 1)

\* A well-conditioned batch of two observations or more has got one more
\* observation of the same event, from an observer at another position, and
\* the corner estimators have been applied to the longer list.
ExtendedBatch ==
    /\ Len(given) >= 3
    /\ ~IllConditioned(NominalDeterminant(Front(given)))
    /\ \A i \in 1..(Len(given) - 1) :
           \/ given[i].playerX # given[Len(given)].playerX
           \/ given[i].playerZ # given[Len(given)].playerZ
    /\ BothCornerOutcomes

\* C26: when a well-conditioned batch gets one more observation of the same
\* event from a new observer position, the exhaustive and the optimized
\* errorRadius of the longer batch are no larger than those of the batch
\* before.
C26_MoreObservationsNoLargerRadius ==
    ExtendedBatch =>
        /\ outcome[1].direct.errorRadius
               <= triangulateEvent(Front(given)).errorRadius
        /\ outcome[2].direct.errorRadius
               <= triangulateEventByCandidates(Front(given)).errorRadius


(***************************************************************************)
(* The inputs of the estimators after the call                             *)
(***************************************************************************)
\* C27: after triangulateEvent, triangulateEventLinear,
\* triangulateEventCovariance or buildErrorRegion returns, playerX, playerZ,
\* relX and relZ of every observation of the array passed in are what they
\* were before the call.
C27_InputsUnchanged ==
    returned # Null => args.observations = returned.passed

\* triangulateEventLinear has returned an estimate for two observations,
\* after its four perturbations.
C27_Witness ==
    /\ returned # Null
    /\ returned.called = "linear"
    /\ returned.out # Null
    /\ Len(returned.passed) = 2
    /\ LinearStore(Store(returned.passed), 2).obsPerturb[2].relZ
           = returned.passed[2].relZ + delta


(***************************************************************************)
(* The pattern generators                                                  *)
(***************************************************************************)
\* C25: each pattern generator (circle, grid, cross, diagonal cross) returns
\* exactly numberOfBots observations for every numberOfBots >= 1, each with
\* the hint that computeRelativeCoords gives for its observer position.
C25_GeneratorsReturnN ==
    returned # Null =>
        /\ Len(returned.observations) = args.numberOfBots
        /\ \A i \in 1..Len(returned.observations) :
               returned.observations[i] =
                   ObservationAt(Point(returned.observations[i].playerX,
                                       returned.observations[i].playerZ),
                                 args.explosionX, args.explosionZ,
                                 args.viewDistance)


(***************************************************************************)
(* The soundwaves of the cache and the batches                             *)
(***************************************************************************)
CachedWaves(map) == {map[i].wave : i \in 1..Len(map)}

\* The calls of performCalculations whose batch holds the soundwave.
BatchesHolding(wave, calls) ==
    {k \in 1..Len(calls) :
        \E i \in 1..Len(calls[k].batch) : calls[k].batch[i] = wave}

\* C28: soundCache.clear() after the await erases no soundwave that is not
\* part of exactly one batch handed to performCalculations, whatever arrived
\* between the call and the clear: every soundwave received is in exactly one
\* processed batch or still in the cache.
C28_ClearErasesOnlyProcessedOnce ==
    [][clearPending' < clearPending =>
        \A wave \in CachedWaves(soundCache) :
            Cardinality(BatchesHolding(wave, processed)) = 1]_vars

\* C29: every batch handed to performCalculations holds soundwaves of one
\* event only; a soundwave left in the cache from an earlier event, which not
\* every account in soundListeners heard, is never put together with
\* soundwaves of a later event.
C29_BatchOfOneEvent ==
    \A k \in Seals :
        \A i \in 1..Len(processed[k].batch), j \in 1..Len(processed[k].batch) :
            processed[k].batch[i].ev = processed[k].batch[j].ev

====
